---------------------------- MODULE Spec2Model ----------------------------
(***************************************************************************)
(* Model of the calendar-feed synthesis of the nexus repository: the       *)
(* user-feed edge function (supabase/functions/user-feed/index.ts), its    *)
(* ICS text helpers, its foreign-feed parser and its serializer; and of    *)
(* the web client that saves a selection and builds the feed URL           *)
(* (src/utils/supabaseService.ts, src/pages/OnboardingEvents.tsx); and of  *)
(* the redirect endpoint (api/redirect/index.mjs).                         *)
(*                                                                         *)
(* Text is modelled as sequences of one-character strings, instants as     *)
(* seconds since 1970-01-01T00:00:00Z, absent values as Null.              *)
(***************************************************************************)
EXTENDS Integers, Sequences, FiniteSets, TLC

VARIABLES
    tPc, tIn, tEsc, tOut,       \* escape / unescape of one text
    hostTZ,                     \* the time zone of the host the function runs on
    clock,                      \* the instant new Date() gives
    dPc, dIn, dOut,             \* parseICSDate of one property value
    gPc, gDoc, gEvents, gOut,   \* a feed document parsed, events serialized
    hPc,                        \* the await the serve handler is at
    hReq,                       \* the request: method, token parameter, pathname
    dbPrefs,                    \* the feed_preferences rows of the token "tok"
    dbFault,                    \* the table whose query fails, if any
    hToken,                     \* token
    hTopicIds, hMajorNames,     \* topicIds, majorNames
    hEvents,                    \* events
    hMajors,                    \* majorsData
    hFetch,                     \* majorEventsPromises, one record per promise
    hStatus, hBody, hIcs,       \* the Response: status, JSON/text body, calendar
    uPc, uEnv, uToken,          \* a token and the environment of the web client
    uUrl,                       \* constructIcsUrl(token)
    uFromUrl,                   \* extractTokenFromIcsUrl of that URL
    uFromPathIcs, uFromPath,    \* extractTokenFromPath of /user-feed/t.ics and /user-feed/t
    pPc,                        \* the page: "new", "ready" (mounted), "left" (navigated away)
    pParams,                    \* window.location.search: redirect_uri, ics_url
    pEnv,                       \* import.meta.env of the page
    pRows,                      \* the feed_preferences table
    pRedirectUri, pSelected,    \* redirectUri, selectedEvents (in insertion order)
    pLoading, pIcsUrl,          \* isLoading, icsUrl
    pExistingToken,             \* existingToken
    pLoad,                      \* loadPreferences: "none", "pending", "done"
    pCall,                      \* the handleSync awaiting savePreferencesAndGetToken
    pSyncs,                     \* the handleSync calls so far
    pSaved,                     \* token and URL of each handleSync that saved
    rPc,                        \* the redirect endpoint: "start", "inserting", "done"
    rQuery, rEnv,               \* req.query and process.env of the redirect endpoint
    rRows,                      \* the feed_preferences table the endpoint writes
    rTopicIds, rMajorIds,       \* topicIds, majorIds
    rToken, rIcsUrl,            \* userToken, icsUrl
    rRes,                       \* res: status, error, Location
    wEnv,                       \* import.meta.env of the waitlist callers
    wRows,                      \* feed_preferences: user_token, waitlist_topics
    wCalls                      \* the addToEventWaitlist call of each caller

textVars == <<tPc, tIn, tEsc, tOut>>
dateVars == <<dPc, dIn, dOut>>
icsVars == <<gPc, gDoc, gEvents, gOut>>
envVars == <<hostTZ, clock>>
handlerVars ==
    <<hPc, hReq, dbPrefs, dbFault, hToken, hTopicIds, hMajorNames, hEvents, hMajors,
      hFetch, hStatus, hBody, hIcs>>
urlVars == <<uPc, uEnv, uToken, uUrl, uFromUrl, uFromPathIcs, uFromPath>>
pageVars ==
    <<pPc, pParams, pEnv, pRows, pRedirectUri, pSelected, pLoading, pIcsUrl,
      pExistingToken, pLoad, pCall, pSyncs, pSaved>>
redirectVars == <<rPc, rQuery, rEnv, rRows, rTopicIds, rMajorIds, rToken, rIcsUrl, rRes>>
waitlistVars == <<wEnv, wRows, wCalls>>
clientVars == <<urlVars, pageVars, redirectVars, waitlistVars>>
vars ==
    <<tPc, tIn, tEsc, tOut, hostTZ, clock, dPc, dIn, dOut, gPc, gDoc, gEvents, gOut,
      hPc, hReq, dbPrefs, dbFault, hToken, hTopicIds, hMajorNames, hEvents, hMajors,
      hFetch, hStatus, hBody, hIcs, clientVars>>

\* An absent text (null or undefined): a sequence no text of the model equals.
Null == <<"null">>

(***************************************************************************)
(* Characters.                                                             *)
(***************************************************************************)
BS == "\\"
NL == "\n"
CR == "\r"
SEMI == ";"
COMMA == ","

\* The longest text the text specification draws.
MaxTextLen == 4

TextAlphabet == {BS, COMMA, SEMI, NL, CR, "n", "a"}

RECURSIVE SeqsUpTo(_, _)
SeqsUpTo(S, n) ==
    IF n = 0 THEN {<<>>}
    ELSE LET shorter == SeqsUpTo(S, n - 1)
         IN  shorter \cup {Append(s, c) : s \in {t \in shorter : Len(t) = n - 1}, c \in S}

IsPrefix(p, s) == Len(p) <= Len(s) /\ SubSeq(s, 1, Len(p)) = p

\* The element of a one-element set: { F(v) : v \in {e} } evaluates e once
\* and hands its value to F.
Only(S) == CHOOSE x \in S : TRUE

\* The scan of ReplaceAll from index i (1-based) of s on.
RECURSIVE ReplaceFrom(_, _, _, _)
ReplaceFrom(s, pat, rep, i) ==
    IF i + Len(pat) - 1 > Len(s) THEN SubSeq(s, i, Len(s))
    ELSE IF SubSeq(s, i, i + Len(pat) - 1) = pat
         THEN rep \o ReplaceFrom(s, pat, rep, i + Len(pat))
         ELSE <<s[i]>> \o ReplaceFrom(s, pat, rep, i + 1)

\* String.prototype.replace with a global literal pattern: a left-to-right
\* scan replacing every non-overlapping occurrence of pat by rep.
ReplaceAll(s, pat, rep) == Only({ ReplaceFrom(v, pat, rep, 1) : v \in {s} })

escapeICSText(text) ==
    LET s1 == ReplaceAll(text, <<BS>>, <<BS, BS>>)
        s2 == ReplaceAll(s1, <<SEMI>>, <<BS, SEMI>>)
        s3 == ReplaceAll(s2, <<COMMA>>, <<BS, COMMA>>)
    IN  ReplaceAll(s3, <<NL>>, <<BS, "n">>)

unescapeICSText(text) ==
    LET s1 == ReplaceAll(text, <<BS, "n">>, <<NL>>)
        s2 == ReplaceAll(s1, <<BS, COMMA>>, <<COMMA>>)
        s3 == ReplaceAll(s2, <<BS, SEMI>>, <<SEMI>>)
    IN  ReplaceAll(s3, <<BS, BS>>, <<BS>>)


(***************************************************************************)
(* Numbers in text: parseInt, substring, padStart.                         *)
(***************************************************************************)
\* Not-a-Number, and the null returned in place of a Date: two integers no
\* instant or field of the model takes.
NaN == 0 - 2147483646
NoDate == 0 - 2147483647

DigitChars == <<"0", "1", "2", "3", "4", "5", "6", "7", "8", "9">>
Digits == {DigitChars[i] : i \in 1..10}
DigitVal(c) == (CHOOSE i \in 1..10 : DigitChars[i] = c) - 1
DigitChar(n) == DigitChars[n + 1]

AllDigits(s) == \A i \in 1..Len(s) : s[i] \in Digits

\* String.prototype.substring(a, b): the characters at 0-based [a, b),
\* both ends clamped to the length.
substring(s, a, b) ==
    LET lo == IF a > Len(s) THEN Len(s) ELSE a
        hi == IF b > Len(s) THEN Len(s) ELSE b
    IN  SubSeq(s, lo + 1, hi)

\* The number of leading (from = 1, step = 1) or trailing (from = Len(s),
\* step = -1) elements of s that are in the set S.
RunLen(s, S, fromEnd) ==
    LET At(k) == IF fromEnd THEN s[Len(s) + 1 - k] ELSE s[k]
        stops == {k \in 1..Len(s) : At(k) \notin S}
    IN  IF stops = {} THEN Len(s)
        ELSE (CHOOSE k \in stops : \A j \in stops : k <= j) - 1

Spaces == {" ", "\t", NL, "\r"}

TrimLeftValue(s) == SubSeq(s, RunLen(s, Spaces, FALSE) + 1, Len(s))
TrimRightValue(s) == SubSeq(s, 1, Len(s) - RunLen(s, Spaces, TRUE))

TrimLeft(s) == Only({ TrimLeftValue(v) : v \in {s} })

\* String.prototype.trim
trim(s) == Only({ TrimRightValue(TrimLeftValue(v)) : v \in {s} })

\* The number written by the first k digits of s.
RECURSIVE DigitsValueTo(_, _)
DigitsValueTo(s, k) ==
    IF k = 0 THEN 0 ELSE 10 * DigitsValueTo(s, k - 1) + DigitVal(s[k])

DigitsValue(s) == Only({ DigitsValueTo(v, Len(v)) : v \in {s} })

ParseIntValue(s) ==
    LET neg  == s # <<>> /\ Head(s) = "-"
        body == IF s # <<>> /\ Head(s) \in {"-", "+"} THEN Tail(s) ELSE s
        n    == RunLen(body, Digits, FALSE)
    IN  IF n = 0 THEN NaN
        ELSE IF neg THEN 0 - DigitsValueTo(body, n)
        ELSE DigitsValueTo(body, n)

\* parseInt(text): leading white space is skipped, a sign is read, then the
\* longest run of decimal digits; NaN when there is no digit.
parseInt(text) == Only({ ParseIntValue(TrimLeftValue(v)) : v \in {text} })

\* String(n).padStart(2, "0") for 0 <= n <= 99.
Pad2(n) == <<DigitChar(n \div 10), DigitChar(n % 10)>>

RECURSIVE NatToChars(_)
NatToChars(n) ==
    IF n < 10 THEN <<DigitChar(n)>> ELSE NatToChars(n \div 10) \o <<DigitChar(n % 10)>>

(***************************************************************************)
(* The Date object: instants are seconds since the epoch.                  *)
(***************************************************************************)
SecPerMin == 60
SecPerHour == 60 * 60
SecPerDay == 24 * 60 * 60

DaysFromCivil(y, m, d) ==
    LET yy  == IF m <= 2 THEN y - 1 ELSE y
        era == yy \div 400
        yoe == yy - era * 400
        mp  == (m + 9) % 12
        doy == (153 * mp + 2) \div 5 + d - 1
        doe == yoe * 365 + yoe \div 4 - yoe \div 100 + doy
    IN  era * 146097 + doe - 719468

CivilFromDays(z) ==
    LET zz  == z + 719468
        era == zz \div 146097
        doe == zz - era * 146097
        yoe == (doe - doe \div 1460 + doe \div 36524 - doe \div 146096) \div 365
        doy == doe - (365 * yoe + yoe \div 4 - yoe \div 100)
        mp  == (5 * doy + 2) \div 153
        d   == doy - (153 * mp + 2) \div 5 + 1
        m   == IF mp < 10 THEN mp + 3 ELSE mp - 9
        y   == yoe + era * 400
    IN  [year |-> IF m <= 2 THEN y + 1 ELSE y, month |-> m, day |-> d]

\* 0 = Sunday. 1970-01-01 was a Thursday.
WeekDay(days) == (days + 4) % 7

\* The wall-clock fields of an instant, read with the getUTC* methods.
UTCFields(t) ==
    Only({ [year |-> c.year, month |-> c.month, day |-> c.day,
            hours |-> sod \div SecPerHour,
            minutes |-> (sod % SecPerHour) \div SecPerMin,
            seconds |-> sod % SecPerMin] :
           c \in {CivilFromDays(t \div SecPerDay)}, sod \in {t % SecPerDay} })

\* MakeDate(MakeDay(year, month, date), MakeTime(h, m, s)) of ECMAScript,
\* month 0-based and free to leave 0..11, fields free to overflow.
MakeInstant(year, month, day, hours, minutes, seconds) ==
    LET ym == year + month \div 12
        mn == month % 12
    IN  (DaysFromCivil(ym, mn + 1, 1) + day - 1) * SecPerDay
            + hours * SecPerHour + minutes * SecPerMin + seconds

AnyNaN(fields) == \E i \in 1..Len(fields) : fields[i] = NaN

\* Date.UTC(year, month, day, hours, minutes, seconds); a year 0..99 is
\* taken as 1900 + year.
DateUTC(year, month, day, hours, minutes, seconds) ==
    IF AnyNaN(<<year, month, day, hours, minutes, seconds>>) THEN NaN
    ELSE MakeInstant(IF year >= 0 /\ year <= 99 THEN 1900 + year ELSE year,
                     month, day, hours, minutes, seconds)

HostZones == {"UTC", "America/Los_Angeles"}

\* The day of the month of the n-th Sunday of a month.
NthSunday(year, month, n) ==
    LET first == CHOOSE d \in 1..7 : WeekDay(DaysFromCivil(year, month, d)) = 0
    IN  first + 7 * (n - 1)

\* The offset from UTC, in seconds, of a zone at a wall-clock time given as
\* if it were UTC. Pacific time is UTC-8, and UTC-7 from the second Sunday
\* of March 02:00 to the first Sunday of November 02:00.
ZoneOffsetAtLocal(zone, wall) ==
    IF zone = "UTC" THEN 0
    ELSE LET y     == CivilFromDays(wall \div SecPerDay).year
             start == DaysFromCivil(y, 3, NthSunday(y, 3, 2)) * SecPerDay + 2 * SecPerHour
             end   == DaysFromCivil(y, 11, NthSunday(y, 11, 1)) * SecPerDay + 2 * SecPerHour
         IN  IF wall >= start /\ wall < end THEN 0 - 7 * SecPerHour ELSE 0 - 8 * SecPerHour

\* new Date(year, month, day, hours, minutes, seconds): the fields are
\* wall-clock time in the host's zone.
DateLocal(zone, year, month, day, hours, minutes, seconds) ==
    LET wall == DateUTC(year, month, day, hours, minutes, seconds)
    IN  IF wall = NaN THEN NaN ELSE wall - ZoneOffsetAtLocal(zone, wall)

(***************************************************************************)
(* formatICSDate, formatICSDateOnly, formatDateOnly, toISOString.          *)
(***************************************************************************)
\* String(NaN), which padStart(2, "0") leaves as it is.
NaNText == <<"N", "a", "N">>

\* The getUTC* fields of an Invalid Date are all NaN.
formatICSDate(date) ==
    IF date = NaN
    THEN NaNText \o NaNText \o NaNText \o <<"T">> \o NaNText \o NaNText \o NaNText \o <<"Z">>
    ELSE Only({ NatToChars(f.year) \o Pad2(f.month) \o Pad2(f.day) \o <<"T">>
                    \o Pad2(f.hours) \o Pad2(f.minutes) \o Pad2(f.seconds) \o <<"Z">> :
                f \in {UTCFields(date)} })

formatICSDateOnly(date) ==
    IF date = NaN
    THEN NaNText \o NaNText \o NaNText
    ELSE Only({ NatToChars(f.year) \o Pad2(f.month) \o Pad2(f.day) :
                f \in {UTCFields(date)} })

formatDateOnly(date) ==
    Only({ NatToChars(f.year) \o <<"-">> \o Pad2(f.month) \o <<"-">> \o Pad2(f.day) :
           f \in {UTCFields(date)} })

\* Date.prototype.toISOString: YYYY-MM-DDTHH:MM:SS.000Z.
toISOString(date) ==
    Only({ NatToChars(f.year) \o <<"-">> \o Pad2(f.month) \o <<"-">> \o Pad2(f.day)
               \o <<"T">> \o Pad2(f.hours) \o <<":">> \o Pad2(f.minutes) \o <<":">>
               \o Pad2(f.seconds) \o <<".", "0", "0", "0", "Z">> :
           f \in {UTCFields(date)} })

(***************************************************************************)
(* parseICSDate.                                                           *)
(***************************************************************************)
Contains(s, c) == \E i \in 1..Len(s) : s[i] = c

OrZero(s) == IF s = <<>> THEN <<"0">> ELSE s

\* The body of parseICSDate once the fields are read from the trimmed text.
ParseICSDateFields(zone, dateStr, year, month, day, hours, minutes, seconds) ==
    IF Len(dateStr) = 8 /\ AllDigits(dateStr)
    THEN DateUTC(year, month - 1, day, 0, 0, 0)
    ELSE IF Len(dateStr) >= 15 /\ Contains(dateStr, "T")
    THEN LET isUTC == dateStr[Len(dateStr)] = "Z" \/ Len(dateStr) = 16
             mon0  == IF month = NaN THEN NaN ELSE month - 1
             date  == IF isUTC
                      THEN DateUTC(year, mon0, day, hours, minutes, seconds)
                      ELSE DateLocal(zone, year, mon0, day, hours, minutes, seconds)
         IN  IF date = NaN THEN NoDate ELSE date
    ELSE NoDate

ParseICSDateTrimmed(zone, dateStr) ==
    Only({ ParseICSDateFields(zone, dateStr, year, month, day, hours, minutes, seconds) :
           year    \in {parseInt(substring(dateStr, 0, 4))},
           month   \in {parseInt(substring(dateStr, 4, 6))},
           day     \in {parseInt(substring(dateStr, 6, 8))},
           hours   \in {parseInt(OrZero(substring(dateStr, 9, 11)))},
           minutes \in {parseInt(OrZero(substring(dateStr, 11, 13)))},
           seconds \in {parseInt(OrZero(substring(dateStr, 13, 15)))} })

parseICSDate(zone, text) ==
    Only({ ParseICSDateTrimmed(zone, dateStr) : dateStr \in {trim(text)} })


(***************************************************************************)
(* new Date(text): the date-time texts the function meets. A date alone    *)
(* is UTC; a date and a time are read by the zone marker that follows      *)
(* them (Z, +HH:MM, -HH:MM) and, without one, as wall-clock time of the    *)
(* host's zone. Everything else is an Invalid Date.                        *)
(***************************************************************************)
InRange(n, lo, hi) == n >= lo /\ n <= hi

DateParseValue(zone, s) ==
    LET dateOk == /\ Len(s) >= 10
                  /\ AllDigits(SubSeq(s, 1, 4)) /\ s[5] = "-"
                  /\ AllDigits(SubSeq(s, 6, 7)) /\ s[8] = "-"
                  /\ AllDigits(SubSeq(s, 9, 10))
        year   == DigitsValue(SubSeq(s, 1, 4))
        month  == DigitsValue(SubSeq(s, 6, 7))
        day    == DigitsValue(SubSeq(s, 9, 10))
        timeOk == /\ Len(s) >= 19
                  /\ s[11] \in {"T", " "}
                  /\ AllDigits(SubSeq(s, 12, 13)) /\ s[14] = ":"
                  /\ AllDigits(SubSeq(s, 15, 16)) /\ s[17] = ":"
                  /\ AllDigits(SubSeq(s, 18, 19))
        hours   == DigitsValue(SubSeq(s, 12, 13))
        minutes == DigitsValue(SubSeq(s, 15, 16))
        seconds == DigitsValue(SubSeq(s, 18, 19))
        rest    == SubSeq(s, 20, Len(s))
        hasMs   == Len(rest) >= 4 /\ rest[1] = "." /\ AllDigits(SubSeq(rest, 2, 4))
        marker  == IF hasMs THEN SubSeq(rest, 5, Len(rest)) ELSE rest
        offOk   == /\ Len(marker) = 6
                   /\ marker[1] \in {"+", "-"}
                   /\ AllDigits(SubSeq(marker, 2, 3)) /\ marker[4] = ":"
                   /\ AllDigits(SubSeq(marker, 5, 6))
        offset  == (DigitsValue(SubSeq(marker, 2, 3)) * SecPerHour
                       + DigitsValue(SubSeq(marker, 5, 6)) * SecPerMin)
                   * (IF marker[1] = "-" THEN 0 - 1 ELSE 1)
        wall    == MakeInstant(year, month - 1, day, hours, minutes, seconds)
    IN  IF ~dateOk \/ ~InRange(month, 1, 12) \/ ~InRange(day, 1, 31) THEN NaN
        ELSE IF Len(s) = 10 THEN MakeInstant(year, month - 1, day, 0, 0, 0)
        ELSE IF ~timeOk \/ hours > 23 \/ minutes > 59 \/ seconds > 59 THEN NaN
        ELSE IF marker = <<>> THEN wall - ZoneOffsetAtLocal(zone, wall)
        ELSE IF marker = <<"Z">> THEN wall
        ELSE IF offOk THEN wall - offset
        ELSE NaN

DateParse(zone, text) == Only({ DateParseValue(zone, s) : s \in {text} })

(***************************************************************************)
(* CalendarEvent. A text field is a sequence of characters (or of opaque   *)
(* tokens), Null when null or undefined.                                   *)
(***************************************************************************)
\* JavaScript truthiness of a nullable string.
Truthy(text) == text # Null /\ text # <<>>

RECURSIVE Includes(_, _)
Includes(s, pat) ==
    IF Len(s) < Len(pat) THEN FALSE
    ELSE IsPrefix(pat, s) \/ Includes(Tail(s), pat)

RECURSIVE FlattenFrom(_, _)
FlattenFrom(seqs, i) ==
    IF i > Len(seqs) THEN <<>> ELSE seqs[i] \o FlattenFrom(seqs, i + 1)

Flatten(seqs) == Only({ FlattenFrom(v, 1) : v \in {seqs} })

Line(name, value) == [name |-> name, value |-> value]

FreqUpper(f) ==
    CASE f = "daily" -> "DAILY"
      [] f = "weekly" -> "WEEKLY"
      [] f = "monthly" -> "MONTHLY"
      [] f = "yearly" -> "YEARLY"
      [] OTHER -> f

\* /^\d{4}-\d{2}-\d{2}$/
IsDashedDate(s) ==
    /\ Len(s) = 10
    /\ AllDigits(SubSeq(s, 1, 4)) /\ s[5] = "-"
    /\ AllDigits(SubSeq(s, 6, 7)) /\ s[8] = "-"
    /\ AllDigits(SubSeq(s, 9, 10))

\* date.setUTCDate(date.getUTCDate() + 1)
NextUTCDate(date) ==
    IF date = NaN THEN NaN
    ELSE Only({ MakeInstant(f.year, f.month - 1, f.day + 1, f.hours, f.minutes, f.seconds) :
                f \in {UTCFields(date)} })

\* date.setUTCHours(23, 59, 59, 999), to the second.
EndOfUTCDay(date) ==
    Only({ MakeInstant(f.year, f.month - 1, f.day, 23, 59, 59) : f \in {UTCFields(date)} })

TimeTBDMark == <<"[", "T", "i", "m", "e", " ", "T", "B", "D", "]">>
TBDText == <<"T", "B", "D">>
ToBeDeterminedText ==
    <<"T", "o", " ", "B", "e", " ", "D", "e", "t", "e", "r", "m", "i", "n", "e", "d">>

\* The RRULE line for a recurrence whose until text gave untilDate.
RRuleLines(event, untilDate) ==
    LET freq == FreqUpper(event.recurrence_frequency[1])
    IN  IF untilDate = NaN THEN <<>>
        ELSE IF freq \in {"DAILY", "WEEKLY", "MONTHLY", "YEARLY"}
        THEN << Line("RRULE", <<"FREQ=", freq, ";UNTIL=">>
                                 \o formatICSDate(EndOfUTCDay(untilDate))) >>
        ELSE <<>>

EndOfDayZ == <<"T", "2", "3", ":", "5", "9", ":", "5", "9", "Z">>

\* The recurrence part of generateICS: at most one RRULE line.
RecurrenceLines(zone, event) ==
    IF ~(Truthy(event.recurrence_frequency) /\ Truthy(event.recurrence_until)) THEN <<>>
    ELSE Only({ RRuleLines(event, untilDate) :
                untilDate \in { Only({ IF IsDashedDate(untilStr)
                                       THEN DateParse(zone, untilStr \o EndOfDayZ)
                                       ELSE DateParse(zone, untilStr) :
                                       untilStr \in {trim(event.recurrence_until)} }) } })

MidnightZ == <<"T", "0", "0", ":", "0", "0", ":", "0", "0", "Z">>

\* const isTimeTBD = event.time_tbd || !event.start_time
IsTimeTBD(event) == event.time_tbd \/ ~Truthy(event.start_time)

\* Mutant of IsAllDay: the time_tbd flag of the event is not read.
IsAllDayWithoutStart(event) == ~Truthy(event.start_time) /\ Truthy(event.event_date)

\* The first branch of generateICS's choice of dates: the all-day form.
IsAllDay(event) == IsTimeTBD(event) /\ Truthy(event.event_date)

StartDate(zone, event) ==
    IF IsAllDay(event)
    THEN DateParse(zone, event.event_date \o MidnightZ)
    ELSE DateParse(zone, event.start_time)

\* Mutant of EndDate: the end_time of the event is used whenever it has one.
EndDateCarried(zone, event, startDate) ==
    IF Truthy(event.end_time) THEN DateParse(zone, event.end_time)
    ELSE IF IsAllDay(event) THEN NextUTCDate(startDate)
    ELSE IF startDate = NaN THEN NaN
    ELSE startDate + SecPerHour

EndDate(zone, event, startDate) ==
    IF IsAllDay(event) THEN NextUTCDate(startDate)
    ELSE IF Truthy(event.end_time) THEN DateParse(zone, event.end_time)
    ELSE IF startDate = NaN THEN NaN
    ELSE startDate + SecPerHour

\* The description written for the event, with the [Time TBD] note.
Description(event) ==
    LET desc0 == IF Truthy(event.description) THEN event.description ELSE <<>>
    IN  IF IsTimeTBD(event) /\ ~Includes(desc0, TBDText)
                            /\ ~Includes(desc0, ToBeDeterminedText)
        THEN (IF desc0 # <<>> THEN desc0 \o <<" ">> ELSE <<>>) \o TimeTBDMark
        ELSE desc0

\* The lines of one VEVENT, its dates and its description computed.
VEventBlock(zone, now, event, startDate, endDate, desc) ==
    << Line("BEGIN", <<"VEVENT">>),
       Line("UID", event.id \o <<"@nexus-sync">>),
       Line("DTSTAMP", formatICSDate(now)) >>
    \o (IF IsAllDay(event)
        THEN << Line("DTSTART;VALUE=DATE", formatICSDateOnly(startDate)),
                Line("DTEND;VALUE=DATE", formatICSDateOnly(endDate)) >>
        ELSE << Line("DTSTART", formatICSDate(startDate)),
                Line("DTEND", formatICSDate(endDate)) >>)
    \o << Line("SUMMARY", escapeICSText(event.title)) >>
    \o (IF desc # <<>> THEN << Line("DESCRIPTION", escapeICSText(desc)) >> ELSE <<>>)
    \o (IF Truthy(event.location)
        THEN << Line("LOCATION", escapeICSText(event.location)) >> ELSE <<>>)
    \o RecurrenceLines(zone, event)
    \o << Line("END", <<"VEVENT">>) >>

\* One pass of the loop of generateICS: the lines the event adds to the
\* document, none when the event is skipped.
VEventLines(zone, now, event) ==
    IF ~Truthy(event.start_time) /\ ~Truthy(event.event_date) THEN <<>>
    ELSE IF ~IsAllDay(event) /\ ~Truthy(event.start_time) THEN <<>>
    ELSE Only({ Only({ VEventBlock(zone, now, event, startDate, endDate, desc) :
                       endDate \in {EndDate(zone, event, startDate)},
                       desc \in {Description(event)} }) :
                startDate \in {StartDate(zone, event)} })

ICSHeader ==
    << Line("BEGIN", <<"VCALENDAR">>),
       Line("VERSION", <<"2.0">>),
       Line("PRODID", <<"-//Nexus Sync//Calendar Feed//EN">>),
       Line("CALSCALE", <<"GREGORIAN">>),
       Line("METHOD", <<"PUBLISH">>) >>

\* The document, as its lines (joined by CRLF in the code).
generateICS(zone, now, events) ==
    Only({ ICSHeader
           \o Flatten([i \in 1..Len(evs) |-> VEventLines(zone, now, evs[i])])
           \o << Line("END", <<"VCALENDAR">>) >> :
           evs \in {events} })


(***************************************************************************)
(* parseICS. A feed document is a sequence of content lines, each with a   *)
(* property name, its parameters and its value; the regular expressions    *)
(* of the code are modelled on these lines. Property names occur at the    *)
(* start of lines only, and values are not empty.                          *)
(***************************************************************************)
FeedLine(name, params, value) == [name |-> name, params |-> params, value |-> value]

IsBeginVEvent(l) == l.name = "BEGIN" /\ l.value = <<"VEVENT">>
IsEndVEvent(l) == l.name = "END" /\ l.value = <<"VEVENT">>

\* The least index k >= from of s with s[k] in S; 0 when there is none.
FirstIndex(s, from, S) ==
    LET hits == {k \in from..Len(s) : s[k] \in S}
    IN  IF hits = {} THEN 0 ELSE CHOOSE k \in hits : \A j \in hits : k <= j

LinesOf(s) == {s[k] : k \in 1..Len(s)}

\* normalizedText.match(/BEGIN:VEVENT[\s\S]*?END:VEVENT/g): from each
\* BEGIN:VEVENT to the nearest END:VEVENT after it, not overlapping.
RECURSIVE MatchVEvents(_, _)
MatchVEvents(doc, from) ==
    Only({ IF b = 0 THEN <<>>
           ELSE Only({ IF e = 0 THEN <<>>
                       ELSE <<SubSeq(doc, b, e)>> \o MatchVEvents(doc, e + 1) :
                       e \in {FirstIndex(doc, b + 1, {l \in LinesOf(doc) : IsEndVEvent(l)})} }) :
           b \in {FirstIndex(doc, from, {l \in LinesOf(doc) : IsBeginVEvent(l)})} })

\* The value captured by /NAME(?:;.*?)?[:\s]+([^\r\n]+)/i, trimmed; Null
\* without a match.
MatchProperty(block, name) ==
    Only({ IF i = 0 THEN Null ELSE trim(block[i].value) :
           i \in {FirstIndex(block, 1, {l \in LinesOf(block) : l.name = name})} })

IsTZIDParam(p) == p \in {"TZID=America/Los_Angeles", "TZID=America/New_York"}

\* (?:;VALUE=DATE)?(?:;TZID=[^:]+)? followed by the colon.
DateParamsMatch(params) ==
    LET rest == IF params # <<>> /\ Head(params) = "VALUE=DATE" THEN Tail(params) ELSE params
    IN  rest = <<>> \/ IsTZIDParam(Head(rest))

\* The value captured by /NAME(?:;VALUE=DATE)?(?:;TZID=[^:]+)?[:\s]+([^\r\n]+)/i,
\* trimmed; Null without a match.
MatchDateProperty(block, name) ==
    Only({ IF i = 0 THEN Null ELSE trim(block[i].value) :
           i \in {FirstIndex(block, 1, {l \in LinesOf(block) :
                                            l.name = name /\ DateParamsMatch(l.params)})} })

\* The id given to a block without UID: source, index, Date.now() and a
\* random suffix, the last two as opaque tokens.
SynthId(sourceName, i) ==
    <<sourceName, "-">> \o NatToChars(i) \o <<"-", "Date.now()", "-", "random">>

\* Mutant of EventOf: the end of the block is kept for a date-only start
\* too.
EventOfKeepsEnd(sourceName, i, uid, summary, desc, loc, dtstart, startDate, endDate) ==
    LET dateOnly == startDate # NoDate /\ Len(dtstart) = 8 /\ ~Contains(dtstart, "T")
    IN  [ id          |-> IF uid # Null THEN uid ELSE SynthId(sourceName, i),
          title       |-> IF summary # Null THEN unescapeICSText(summary)
                          ELSE <<"Event from ", sourceName>>,
          description |-> IF desc # Null THEN unescapeICSText(desc) ELSE Null,
          location    |-> IF loc # Null THEN unescapeICSText(loc) ELSE Null,
          topic_id    |-> <<"major:", sourceName>>,
          time_tbd    |-> dateOnly,
          event_date  |-> IF dateOnly THEN formatDateOnly(startDate) ELSE Null,
          start_time  |-> IF startDate # NoDate /\ ~dateOnly THEN toISOString(startDate)
                          ELSE Null,
          end_time    |-> IF endDate # NoDate THEN toISOString(endDate) ELSE Null,
          recurrence_frequency |-> Null,
          recurrence_until     |-> Null ]

\* The event of a block, its properties matched and its dates parsed.
EventOf(sourceName, i, uid, summary, desc, loc, dtstart, startDate, endDate) ==
    LET dateOnly == startDate # NoDate /\ Len(dtstart) = 8 /\ ~Contains(dtstart, "T")
    IN  [ id          |-> IF uid # Null THEN uid ELSE SynthId(sourceName, i),
          title       |-> IF summary # Null THEN unescapeICSText(summary)
                          ELSE <<"Event from ", sourceName>>,
          description |-> IF desc # Null THEN unescapeICSText(desc) ELSE Null,
          location    |-> IF loc # Null THEN unescapeICSText(loc) ELSE Null,
          topic_id    |-> <<"major:", sourceName>>,
          time_tbd    |-> dateOnly,
          event_date  |-> IF dateOnly THEN formatDateOnly(startDate) ELSE Null,
          start_time  |-> IF startDate # NoDate /\ ~dateOnly THEN toISOString(startDate)
                          ELSE Null,
          end_time    |-> IF endDate # NoDate /\ ~dateOnly THEN toISOString(endDate)
                          ELSE Null,
          recurrence_frequency |-> Null,
          recurrence_until     |-> Null ]

\* The Date of a matched DTSTART or DTEND value, NoDate without a match.
PropertyDate(zone, value) ==
    IF value = Null THEN NoDate ELSE parseICSDate(zone, value)

\* The body of the loop of parseICS for block number i (0-based): the event
\* built from the block, before the test that keeps or skips it.
BlockEvent(zone, block, sourceName, i) ==
    Only({ EventOf(sourceName, i,
                   MatchProperty(block, "UID"), MatchProperty(block, "SUMMARY"),
                   MatchProperty(block, "DESCRIPTION"), MatchProperty(block, "LOCATION"),
                   dtstart, PropertyDate(zone, dtstart), PropertyDate(zone, dtend)) :
           dtstart \in {MatchDateProperty(block, "DTSTART")},
           dtend \in {MatchDateProperty(block, "DTEND")} })

\* Mutant of HasStart: the test forgets event_date.
HasStartTimed(event) == Truthy(event.start_time)

HasStart(event) == Truthy(event.start_time) \/ Truthy(event.event_date)

\* The loop of parseICS from block number i (0-based) on.
RECURSIVE ParseBlocks(_, _, _, _)
ParseBlocks(zone, blocks, sourceName, i) ==
    IF i >= Len(blocks) THEN <<>>
    ELSE Only({ (IF HasStart(event) THEN <<event>> ELSE <<>>)
                    \o ParseBlocks(zone, blocks, sourceName, i + 1) :
                event \in {BlockEvent(zone, blocks[i + 1], sourceName, i)} })

parseICS(zone, icsText, sourceName) ==
    Only({ ParseBlocks(zone, veventMatches, sourceName, 0) :
           veventMatches \in {MatchVEvents(icsText, 1)} })

(***************************************************************************)
(* Specification of parseICSDate: a property value is drawn as a date      *)
(* part, a separator, a time part and a tail, and parsed.                  *)
(***************************************************************************)
\* The longest run of characters after the time part of a drawn value.
MaxTailLen == 2

DateParts ==
    { <<"2","0","2","5","0","3","1","0">>,
      <<"2","0","2","5","1","2","3","1">>,
      <<"2","0","2","5","0","3","1">>,
      <<"2","0","2","5","0","3","1","a">>,
      <<"2","0","2","5","-","0","3","-","1","0">> }

Separators == { <<>>, <<"T">>, <<" ">> }

TimeParts ==
    { <<>>,
      <<"1","4","0","0","0","0">>,
      <<"2","3","5","9","5","9">>,
      <<"1","4","0","0">>,
      <<"1","4",":","0","0",":","0","0">> }

Tails == SeqsUpTo({"Z", "0"}, MaxTailLen)

DateTexts ==
    { d \o s \o t \o z : d \in DateParts, s \in Separators, t \in TimeParts, z \in Tails }

DateIdle == dPc = "idle" /\ dIn = <<>> /\ dOut = NoDate

IcsIdle == gPc = "idle" /\ gDoc = <<>> /\ gEvents = <<>> /\ gOut = <<>>

HandlerIdle ==
    /\ hPc = "idle"
    /\ hReq = [method |-> "GET", token |-> Null, pathname |-> <<>>]
    /\ dbPrefs = <<>>
    /\ dbFault = "none"
    /\ hToken = Null
    /\ hTopicIds = <<>>
    /\ hMajorNames = <<>>
    /\ hEvents = <<>>
    /\ hMajors = <<>>
    /\ hFetch = <<>>
    /\ hStatus = 0
    /\ hBody = ""
    /\ hIcs = <<>>

UrlIdle ==
    /\ uPc = "idle"
    /\ uEnv = [VITE_SUPABASE_URL |-> Null, VITE_SUPABASE_ANON_KEY |-> Null]
    /\ uToken = <<>>
    /\ uUrl = Null
    /\ uFromUrl = Null
    /\ uFromPathIcs = Null
    /\ uFromPath = Null

\* No handleSync awaits a save.
NoCall == [op |-> "none"]

PageIdle ==
    /\ pPc = "idle"
    /\ pParams = [redirect_uri |-> Null, ics_url |-> Null]
    /\ pEnv = [VITE_SUPABASE_URL |-> Null, VITE_SUPABASE_ANON_KEY |-> Null]
    /\ pRows = <<>>
    /\ pRedirectUri = Null
    /\ pSelected = <<>>
    /\ pLoading = FALSE
    /\ pIcsUrl = Null
    /\ pExistingToken = Null
    /\ pLoad = "none"
    /\ pCall = NoCall
    /\ pSyncs = 0
    /\ pSaved = <<>>

\* No response yet.
NoResponse == [status |-> 0, error |-> "", location |-> <<>>]

RedirectIdle ==
    /\ rPc = "idle"
    /\ rQuery = <<>>
    /\ rEnv = <<>>
    /\ rRows = <<>>
    /\ rTopicIds = <<>>
    /\ rMajorIds = <<>>
    /\ rToken = Null
    /\ rIcsUrl = Null
    /\ rRes = NoResponse

WaitlistIdle ==
    /\ wEnv = <<>>
    /\ wRows = <<>>
    /\ wCalls = <<>>

ClientIdle == UrlIdle /\ PageIdle /\ RedirectIdle /\ WaitlistIdle

\* 2025-03-01T12:00:00Z, the instant of the request.
Clock0 == MakeInstant(2025, 2, 1, 12, 0, 0)

(***************************************************************************)
(* Specification of the text helpers: a text is escaped as generateICS     *)
(* escapes SUMMARY/DESCRIPTION/LOCATION, then unescaped as parseICS        *)
(* unescapes them.                                                         *)
(***************************************************************************)
TextIdle == tPc = "idle" /\ tIn = <<>> /\ tEsc = <<>> /\ tOut = <<>>

TextInit ==
    /\ tPc = "in"
    /\ tIn \in SeqsUpTo(TextAlphabet, MaxTextLen)
    /\ tEsc = <<>>
    /\ tOut = <<>>
    /\ hostTZ = "UTC"
    /\ clock = Clock0
    /\ DateIdle
    /\ IcsIdle
    /\ HandlerIdle
    /\ ClientIdle

Escape ==
    /\ tPc = "in"
    /\ tEsc' = escapeICSText(tIn)
    /\ tPc' = "escaped"
    /\ UNCHANGED <<tIn, tOut, envVars, dateVars, icsVars, handlerVars, clientVars>>

Unescape ==
    /\ tPc = "escaped"
    /\ tOut' = unescapeICSText(tEsc)
    /\ tPc' = "unescaped"
    /\ UNCHANGED <<tIn, tEsc, envVars, dateVars, icsVars, handlerVars, clientVars>>

TextNext == Escape \/ Unescape

SpecText == TextInit /\ [][TextNext]_vars

\* C3: unescapeICSText(escapeICSText(s)) = s for every text s of backslashes,
\* commas, semicolons, newlines and letters (a backslash followed by the
\* letter n included).
C3_RoundTrip == tPc = "unescaped" => tOut = tIn

\* The characters that end a content line.
LineBreaks == {CR, NL}

\* C27: the value generateICS writes after SUMMARY:, DESCRIPTION: or LOCATION:
\* (the escaped text) holds no raw carriage return and no raw line feed,
\* whatever the title, description or location is, so no value can add a
\* content line to the document.
C27_NoRawLineBreak ==
    tPc = "escaped" => \A i \in 1..Len(tEsc) : tEsc[i] \notin LineBreaks

DateInit ==
    /\ dPc = "in"
    /\ dIn \in DateTexts
    /\ dOut = NoDate
    /\ hostTZ \in HostZones
    /\ clock = Clock0
    /\ TextIdle
    /\ IcsIdle
    /\ HandlerIdle
    /\ ClientIdle

ParseDate ==
    /\ dPc = "in"
    /\ dOut' = parseICSDate(hostTZ, dIn)
    /\ dPc' = "parsed"
    /\ UNCHANGED <<dIn, envVars, textVars, icsVars, handlerVars, clientVars>>

DateNext == ParseDate

SpecDate == DateInit /\ [][DateNext]_vars


(***************************************************************************)
(* Specification of the feed path and of the serializer: either a feed     *)
(* document is drawn, parsed by parseICS and its events serialized by      *)
(* generateICS, or a list of rows of the events table is drawn and         *)
(* serialized.                                                             *)
(***************************************************************************)
\* The most VEVENT blocks a drawn feed document is made of.
MaxBlocks == 2
\* The most rows a drawn result of the events table holds.
MaxStoreEvents == 2

SourceName == "CS"

BeginVEvent == FeedLine("BEGIN", <<>>, <<"VEVENT">>)
EndVEvent == FeedLine("END", <<>>, <<"VEVENT">>)

\* DTSTART:20250310T140000Z with UID, SUMMARY, DTEND.
BlockTimed ==
    << BeginVEvent,
       FeedLine("UID", <<>>, <<"u1">>),
       FeedLine("SUMMARY", <<>>, <<"A">>),
       FeedLine("DTSTART", <<>>, <<"2", "0", "2", "5", "0", "3", "1", "0", "T", "1", "4", "0", "0", "0", "0", "Z">>),
       FeedLine("DTEND", <<>>, <<"2", "0", "2", "5", "0", "3", "1", "0", "T", "1", "5", "0", "0", "0", "0", "Z">>),
       EndVEvent >>

\* DTSTART;VALUE=DATE:20251231 with an escaped comma in SUMMARY and a DTEND
\* two days later.
BlockAllDay ==
    << BeginVEvent,
       FeedLine("UID", <<>>, <<"u2">>),
       FeedLine("SUMMARY", <<>>, <<"B", BS, COMMA>>),
       FeedLine("DTSTART", <<"VALUE=DATE">>, <<"2", "0", "2", "5", "1", "2", "3", "1">>),
       FeedLine("DTEND", <<"VALUE=DATE">>, <<"2", "0", "2", "6", "0", "1", "0", "2">>),
       EndVEvent >>

\* DTSTART;TZID=America/Los_Angeles:20250310T140000, no UID, no SUMMARY, a
\* weekly RRULE with a COUNT.
BlockLocal ==
    << BeginVEvent,
       FeedLine("DTSTART", <<"TZID=America/Los_Angeles">>, <<"2", "0", "2", "5", "0", "3", "1", "0", "T", "1", "4", "0", "0", "0", "0">>),
       FeedLine("RRULE", <<>>, <<"FREQ=WEEKLY", ";", "COUNT=4">>),
       EndVEvent >>

\* DTSTART;TZID=America/New_York:20250310T140000 with a DTEND one hour
\* later, the block BlockLocal with another zone.
BlockLocalNY ==
    << BeginVEvent,
       FeedLine("UID", <<>>, <<"u9">>),
       FeedLine("DTSTART", <<"TZID=America/New_York">>, <<"2", "0", "2", "5", "0", "3", "1", "0", "T", "1", "4", "0", "0", "0", "0">>),
       FeedLine("DTEND", <<"TZID=America/New_York">>, <<"2", "0", "2", "5", "0", "3", "1", "0", "T", "1", "5", "0", "0", "0", "0">>),
       EndVEvent >>

\* The start of BlockTimed under another UID.
BlockTwin ==
    << BeginVEvent,
       FeedLine("UID", <<>>, <<"u10">>),
       FeedLine("SUMMARY", <<>>, <<"W">>),
       FeedLine("DTSTART", <<>>, <<"2", "0", "2", "5", "0", "3", "1", "0", "T", "1", "4", "0", "0", "0", "0", "Z">>),
       EndVEvent >>

\* No DTSTART.
BlockNoStart ==
    << BeginVEvent,
       FeedLine("UID", <<>>, <<"u4">>),
       FeedLine("SUMMARY", <<>>, <<"D">>),
       EndVEvent >>

\* DTSTART:2025-03-10, which parseICSDate does not read.
BlockBadStart ==
    << BeginVEvent,
       FeedLine("UID", <<>>, <<"u5">>),
       FeedLine("DTSTART", <<>>, <<"2", "0", "2", "5", "-", "0", "3", "-", "1", "0">>),
       EndVEvent >>

\* DTSTART;VALUE=DATE-TIME:20250312T090000Z, a parameter the expression of
\* line 127 does not allow for.
BlockOtherParam ==
    << BeginVEvent,
       FeedLine("UID", <<>>, <<"u6">>),
       FeedLine("DTSTART", <<"VALUE=DATE-TIME">>, <<"2", "0", "2", "5", "0", "3", "1", "2", "T", "0", "9", "0", "0", "0", "0", "Z">>),
       EndVEvent >>

\* DTSTART;VALUE=DATE:20250312T090000Z, a date-time under VALUE=DATE.
BlockDateParamTimed ==
    << BeginVEvent,
       FeedLine("UID", <<>>, <<"u8">>),
       FeedLine("DTSTART", <<"VALUE=DATE">>, <<"2", "0", "2", "5", "0", "3", "1", "2", "T", "0", "9", "0", "0", "0", "0", "Z">>),
       FeedLine("DTEND", <<"VALUE=DATE">>, <<"2", "0", "2", "5", "0", "3", "1", "2", "T", "1", "0", "0", "0", "0", "0", "Z">>),
       EndVEvent >>

\* A block that is never closed.
BlockOpen ==
    << BeginVEvent,
       FeedLine("UID", <<>>, <<"u7">>),
       FeedLine("DTSTART", <<>>, <<"2", "0", "2", "5", "0", "3", "1", "1", "T", "0", "8", "0", "0", "0", "0", "Z">>) >>

FeedBlocks ==
    { BlockTimed, BlockAllDay, BlockLocal, BlockLocalNY, BlockNoStart, BlockBadStart,
      BlockOtherParam, BlockDateParamTimed, BlockOpen }

FeedDocs ==
    { <<FeedLine("BEGIN", <<>>, <<"VCALENDAR">>)>> \o Flatten(bs)
          \o <<FeedLine("END", <<>>, <<"VCALENDAR">>)>> :
      bs \in SeqsUpTo(FeedBlocks, MaxBlocks) }

\* A row of the events table.
StoreEvent(id, title, start, end, date, tbd, freq, until) ==
    [ id |-> id, title |-> title, description |-> Null, location |-> Null,
      topic_id |-> <<"Basketball">>, time_tbd |-> tbd, event_date |-> date,
      start_time |-> start, end_time |-> end,
      recurrence_frequency |-> freq, recurrence_until |-> until ]

\* start_time without a zone marker, no end_time.
RowNaive == StoreEvent(<<"s1">>, <<"N">>, <<"2", "0", "2", "5", "-", "0", "3", "-", "1", "0", " ", "1", "4", ":", "0", "0", ":", "0", "0">>, Null, Null, FALSE, Null, Null)

\* start_time and end_time with the +00:00 marker.
RowUTC == StoreEvent(<<"s2">>, <<"U", SEMI>>, <<"2", "0", "2", "5", "-", "0", "3", "-", "0", "9", "T", "1", "8", ":", "0", "0", ":", "0", "0", "+", "0", "0", ":", "0", "0">>, <<"2", "0", "2", "5", "-", "0", "3", "-", "0", "9", "T", "2", "0", ":", "3", "0", ":", "0", "0", "+", "0", "0", ":", "0", "0">>, Null, FALSE, Null, Null)

\* start_time with the -07:00 marker and a weekly recurrence.
RowOffset ==
    StoreEvent(<<"s3">>, <<"O">>, <<"2", "0", "2", "5", "-", "0", "3", "-", "1", "1", "T", "0", "8", ":", "0", "0", ":", "0", "0", "-", "0", "7", ":", "0", "0">>, Null, Null, FALSE, <<"weekly">>, <<"2", "0", "2", "5", "-", "0", "6", "-", "0", "1">>)

\* event_date on the last day of a year, no start_time, an end_time all the same.
RowAllDay == StoreEvent(<<"s4">>, <<"Y">>, Null, <<"2", "0", "2", "5", "-", "1", "2", "-", "3", "1", "T", "1", "0", ":", "0", "0", ":", "0", "0", "+", "0", "0", ":", "0", "0">>, <<"2", "0", "2", "5", "-", "1", "2", "-", "3", "1">>, FALSE, Null, Null)

\* time_tbd with both a start_time and an event_date, on 28 February of a
\* leap year.
RowTBD == StoreEvent(<<"s5">>, <<"T">>, <<"2", "0", "2", "4", "-", "0", "2", "-", "2", "8", "T", "1", "7", ":", "0", "0", ":", "0", "0", "+", "0", "0", ":", "0", "0">>, Null, <<"2", "0", "2", "4", "-", "0", "2", "-", "2", "8">>, TRUE, Null, Null)

\* event_date on the last day of February of a common year.
RowFebEnd == StoreEvent(<<"s6">>, <<"F">>, Null, Null, <<"2", "0", "2", "5", "-", "0", "2", "-", "2", "8">>, TRUE, Null, Null)

\* start_time at midnight UTC of the event_date of RowFebEnd.
RowMidnight == StoreEvent(<<"s8">>, <<"M">>, <<"2", "0", "2", "5", "-", "0", "2", "-", "2", "8", "T", "0", "0", ":", "0", "0", ":", "0", "0", "+", "0", "0", ":", "0", "0">>, Null, Null, FALSE, Null, Null)

\* Neither start_time nor event_date.
RowNoStart == StoreEvent(<<"s7">>, <<"X">>, Null, Null, Null, FALSE, Null, Null)

\* start_time that Date does not read.
RowBadStart == StoreEvent(<<"s9">>, <<"B">>, <<"s", "o", "o", "n">>, Null, Null, FALSE, Null, Null)

\* end_time that Date does not read.
RowBadEnd == [RowUTC EXCEPT !.id = <<"s10">>, !.end_time = <<"l", "a", "t", "e">>]

\* start_time, end_time and event_date the empty text.
RowEmpty == StoreEvent(<<"s11">>, <<"E">>, <<>>, <<>>, <<>>, FALSE, Null, Null)

\* end_time one hour before start_time.
RowBackwards ==
    [RowUTC EXCEPT !.id = <<"s12">>,
                   !.end_time = <<"2", "0", "2", "5", "-", "0", "3", "-", "0", "9", "T", "1", "7", ":", "0", "0", ":", "0", "0", "+", "0", "0", ":", "0", "0">>]

\* Events without a time whose description names it in one or another
\* letter case, or not at all.
RowTbdUpper == [RowFebEnd EXCEPT !.id = <<"s13">>, !.description = <<"T", "B", "D">>]
RowTbdLower == [RowFebEnd EXCEPT !.id = <<"s14">>, !.description = <<"t", "i", "m", "e", " ", "t", "b", "d">>]
RowToBe == [RowFebEnd EXCEPT !.id = <<"s15">>, !.description = ToBeDeterminedText]
RowToBeLower ==
    [RowFebEnd EXCEPT !.id = <<"s16">>,
                      !.description = <<"t", "o", " ", "b", "e", " ", "d", "e", "t", "e", "r", "m", "i", "n", "e", "d">>]
RowPlain == [RowFebEnd EXCEPT !.id = <<"s17">>, !.description = <<"g", "y", "m">>]

\* time_tbd with a start_time and no event_date.
RowTBDNoDate == [RowTBD EXCEPT !.id = <<"s19">>, !.event_date = Null]

\* An event with a time and a description.
RowTimedPlain == [RowUTC EXCEPT !.id = <<"s18">>, !.description = <<"g", "y", "m">>]

StoreRows ==
    { RowNaive, RowUTC, RowOffset, RowAllDay, RowTBD, RowFebEnd, RowNoStart,
      RowBadStart, RowBadEnd, RowEmpty, RowBackwards,
      RowTbdUpper, RowTbdLower, RowToBe, RowToBeLower, RowPlain, RowTBDNoDate,
      RowTimedPlain }

IcsInit ==
    /\ \/ /\ gPc = "feed"
          /\ gDoc \in FeedDocs
          /\ gEvents = <<>>
       \/ /\ gPc = "events"
          /\ gDoc = <<>>
          /\ gEvents \in SeqsUpTo(StoreRows, MaxStoreEvents)
    /\ gOut = <<>>
    /\ hostTZ \in HostZones
    /\ clock = Clock0
    /\ TextIdle
    /\ DateIdle
    /\ HandlerIdle
    /\ ClientIdle

ParseFeed ==
    /\ gPc = "feed"
    /\ gEvents' = parseICS(hostTZ, gDoc, SourceName)
    /\ gPc' = "events"
    /\ UNCHANGED <<gDoc, gOut, envVars, textVars, dateVars, handlerVars, clientVars>>

Generate ==
    /\ gPc = "events"
    /\ gOut' = generateICS(hostTZ, clock, gEvents)
    /\ gPc' = "done"
    /\ UNCHANGED <<gDoc, gEvents, envVars, textVars, dateVars, handlerVars, clientVars>>

IcsNext == ParseFeed \/ Generate

SpecICS == IcsInit /\ [][IcsNext]_vars

\* The two shapes of a feed timestamp: YYYYMMDD, and YYYYMMDDTHHMMSS with an
\* optional final Z.
IsDateShape(s) == Len(s) = 8 /\ AllDigits(s)

IsDateTimeShape(s) ==
    /\ Len(s) \in {15, 16}
    /\ AllDigits(SubSeq(s, 1, 8))
    /\ s[9] = "T"
    /\ AllDigits(SubSeq(s, 10, 15))
    /\ Len(s) = 16 => s[16] = "Z"

\* C8: parseICSDate returns an instant only for an 8-digit YYYYMMDD text or
\* a 15/16-character YYYYMMDDTHHMMSS[Z] text; every other text gives the
\* parse-failure value.
C8_OnlyTwoShapes ==
    (dPc = "parsed" /\ dOut # NoDate) => (IsDateShape(trim(dIn)) \/ IsDateTimeShape(trim(dIn)))

(***************************************************************************)
(* The serve handler. One action per stretch of the handler between two    *)
(* awaits; the promises of majorEventsPromises run interleaved, each with  *)
(* an await of fetch and an await of the body.                             *)
(***************************************************************************)
\* The most topic ids a drawn topic_id array holds.
MaxTopics == 3

\* A topic id is a text whose first element is "major:" when it starts
\* with that prefix: two direct topics and two sources of the registry.
Topics == { <<"Basketball">>, <<"Chess">>, <<"major:", "CS">>, <<"major:", "Math">> }

\* Ids that try the prefix: a source, a name that itself starts with the
\* prefix, and a direct topic with the prefix inside.
PrefixTopics ==
    { <<"major:", "CS">>, <<"major:", "major:", "CS">>, <<"club-", "major:", "CS">> }

\* The arrays a topic_id column holds in the model.
TopicArrays == SeqsUpTo(Topics, MaxTopics) \cup SeqsUpTo(PrefixTopics, MaxTopics)

\* The texts a row written before topic_id was an array holds: one topic,
\* the empty text, the JSON text ["Basketball","Chess"] and the list
\* Basketball,major:CS.
LegacyTexts ==
    { <<"Basketball">>, <<>>,
      <<"[", "\"", "Basketball", "\"", COMMA, "\"", "Chess", "\"", "]">>,
      <<"Basketball", COMMA, "major:", "CS">> }

\* The values of the topic_id column: null, a single text (the older
\* format, "" included), an array of texts.
TopicIdValues ==
    { [kind |-> "null", items |-> <<>>] }
    \cup { [kind |-> "scalar", items |-> <<t>>] : t \in LegacyTexts }
    \cup { [kind |-> "array", items |-> ts] : ts \in TopicArrays }

\* The rows of feed_preferences with user_token "tok": none or one.
PrefRowSets == { <<>> } \cup { << [topic_id |-> v] >> : v \in TopicIdValues }

\* data of a query that returned no row.
NoData == [topic_id |-> [kind |-> "nodata", items |-> <<>>]]

Requests ==
    { [method |-> "OPTIONS", token |-> Null, pathname |-> << <<"functions">>, <<"v1">>, <<"user-feed">> >>],
      [method |-> "GET", token |-> <<"tok">>, pathname |-> << <<"functions">>, <<"v1">>, <<"user-feed">> >>],
      [method |-> "GET", token |-> <<"bad">>, pathname |-> << <<"functions">>, <<"v1">>, <<"user-feed">> >>],
      [method |-> "GET", token |-> Null, pathname |-> << <<"functions">>, <<"v1">>, <<"user-feed">> >>],
      [method |-> "GET", token |-> Null, pathname |-> << <<"functions">>, <<"v1">>, <<"user-feed">>, <<"tok", ".ics">> >>],
      [method |-> "GET", token |-> <<>>, pathname |-> << <<"USER-FEED">>, <<"tok">> >>],
      [method |-> "GET", token |-> Null, pathname |-> << <<"user-feed">>, <<".ICS">> >>] }

Faults == {"none", "feed_preferences", "events", "majors"}

\* The events table.
EventsTable ==
    << RowOffset, RowUTC,
       [RowFebEnd EXCEPT !.topic_id = <<"Chess">>],
       [RowNoStart EXCEPT !.topic_id = <<"Chess">>],
       [RowMidnight EXCEPT !.topic_id = <<"Chess">>] >>

\* The majors table.
MajorsTable ==
    << [name |-> <<"CS">>, url |-> "https://feeds.example/cs.ics"],
       [name |-> <<"Math">>, url |-> "https://feeds.example/math.ics"] >>

\* The documents a feed URL answers with.
HandlerDocs ==
    { <<FeedLine("BEGIN", <<>>, <<"VCALENDAR">>)>> \o Flatten(bs)
          \o <<FeedLine("END", <<>>, <<"VCALENDAR">>)>> :
      bs \in { <<>>, <<BlockTimed>>, <<BlockNoStart, BlockAllDay, BlockTwin>> } }

UpperLetters ==
    <<"A", "B", "C", "D", "E", "F", "G", "H", "I", "J", "K", "L", "M",
      "N", "O", "P", "Q", "R", "S", "T", "U", "V", "W", "X", "Y", "Z">>

LowerLetters ==
    <<"a", "b", "c", "d", "e", "f", "g", "h", "i", "j", "k", "l", "m",
      "n", "o", "p", "q", "r", "s", "t", "u", "v", "w", "x", "y", "z">>

\* The lower-case form of a character, as the i flag of a regular
\* expression folds it.
LowerChar(c) ==
    IF \E k \in 1..Len(UpperLetters) : UpperLetters[k] = c
    THEN LowerLetters[CHOOSE k \in 1..Len(UpperLetters) : UpperLetters[k] = c]
    ELSE c

Lower(text) == [k \in 1..Len(text) |-> LowerChar(text[k])]

DotIcs == <<".", "i", "c", "s">>

UserFeed == <<"u", "s", "e", "r", "-", "f", "e", "e", "d">>

\* text has pat at index i (1-based), letter case ignored.
MatchesAt(text, pat, i) ==
    /\ i >= 1
    /\ i + Len(pat) - 1 <= Len(text)
    /\ Lower(SubSeq(text, i, i + Len(pat) - 1)) = pat

\* match[1].replace(/\.ics$/i, ""): a final .ics is removed, written out
\* in characters or as one element.
StripIcs(segment) ==
    IF segment # <<>> /\ segment[Len(segment)] \in {".ics", ".ICS"}
    THEN SubSeq(segment, 1, Len(segment) - 1)
    ELSE IF MatchesAt(segment, DotIcs, Len(segment) - 3)
    THEN SubSeq(segment, 1, Len(segment) - 4)
    ELSE segment

\* A path segment that is user-feed, letter case ignored.
IsUserFeedSegment(segment) ==
    segment \in { <<"user-feed">>, <<"USER-FEED">> } \/ Lower(segment) = UserFeed

\* pathname.match(/\/(?:functions\/v1\/)?user-feed\/([^/]+)/i): the segment
\* after the first user-feed segment that has a non-empty one after it.
extractTokenFromPath(pathname) ==
    LET hits == { i \in 1..(Len(pathname) - 1) :
                    /\ IsUserFeedSegment(pathname[i])
                    /\ pathname[i + 1] # <<>> }
    IN  IF hits = {} THEN Null
        ELSE StripIcs(pathname[(CHOOSE i \in hits : \A j \in hits : i <= j) + 1])

\* .eq("user_token", token) on feed_preferences.
PrefsFor(token) == IF token = <<"tok">> THEN dbPrefs ELSE <<>>

\* .single(): the row when there is exactly one, else an error
\* (PGRST116) and no data.
single(rows) ==
    IF Len(rows) = 1 THEN [data |-> rows[1], error |-> "none"]
    ELSE [data |-> NoData, error |-> "PGRST116"]

\* Mutant of PrefsMissing: an empty array counts as no preferences.
PrefsMissingOrEmpty(data) ==
    \/ data = NoData
    \/ data.topic_id.kind = "null"
    \/ data.topic_id.items \in { <<>>, << <<>> >> }

\* !preferences || !preferences.topic_id
PrefsMissing(data) ==
    \/ data = NoData
    \/ data.topic_id.kind = "null"
    \/ data.topic_id.kind = "scalar" /\ data.topic_id.items[1] = <<>>

\* The loop over topicIdArray: the ids that do not start with "major:".
TopicIdsOf(topicIdArray) == SelectSeq(topicIdArray, LAMBDA t : Head(t) # "major:")

\* Mutant of MajorNamesOf: the name pushed is the whole id, the prefix left
\* in.
MajorNamesWithPrefix(topicIdArray) ==
    SelectSeq(topicIdArray, LAMBDA t : Head(t) = "major:")

\* The loop over topicIdArray: the ids that start with "major:", the prefix
\* removed.
MajorNamesOf(topicIdArray) ==
    LET majors == SelectSeq(topicIdArray, LAMBDA t : Head(t) = "major:")
    IN  [i \in 1..Len(majors) |-> Tail(majors[i])]

\* Mutant of SelectIn: one selection for each value, a row given once for
\* each value that names it.
SelectPerValue(table, column, values) ==
    Flatten([k \in 1..Len(values) |-> SelectSeq(table, LAMBDA row : row[column] = values[k])])

\* .in(column, values) on a table.
SelectIn(table, column, values) ==
    SelectSeq(table, LAMBDA row : \E k \in 1..Len(values) : row[column] = values[k])

\* The comparator of events.sort: negative, zero or positive.
CompareStart(zone, a, b) ==
    IF ~Truthy(a.start_time) /\ ~Truthy(b.start_time) THEN 0
    ELSE IF ~Truthy(a.start_time) THEN 1
    ELSE IF ~Truthy(b.start_time) THEN 0 - 1
    ELSE DateParse(zone, a.start_time) - DateParse(zone, b.start_time)

\* sorted with e put before the first element it compares less than.
RECURSIVE InsertSorted(_, _, _, _)
InsertSorted(zone, sorted, e, i) ==
    IF i > Len(sorted) THEN Append(sorted, e)
    ELSE IF CompareStart(zone, e, sorted[i]) < 0
    THEN SubSeq(sorted, 1, i - 1) \o <<e>> \o SubSeq(sorted, i, Len(sorted))
    ELSE InsertSorted(zone, sorted, e, i + 1)

RECURSIVE SortFrom(_, _, _, _)
SortFrom(zone, events, i, sorted) ==
    IF i > Len(events) THEN sorted
    ELSE Only({ SortFrom(zone, events, i + 1, next) :
                next \in {InsertSorted(zone, sorted, events[i], 1)} })

\* events.sort(comparator): Array.prototype.sort, which is stable.
sortedEvents(zone, events) == Only({ SortFrom(zone, evs, 1, <<>>) : evs \in {events} })

\* A request that names its token in the path is drawn with a selection of
\* at most one entry, a request that names it in the query with any.
HandlerInit ==
    /\ hPc = "start"
    /\ hReq \in Requests
    /\ dbPrefs \in PrefRowSets
    /\ \/ Truthy(hReq.token)
       \/ \A k \in 1..Len(dbPrefs) : Len(dbPrefs[k].topic_id.items) <= 1
    /\ dbFault \in Faults
    /\ hToken = Null
    /\ hTopicIds = <<>>
    /\ hMajorNames = <<>>
    /\ hEvents = <<>>
    /\ hMajors = <<>>
    /\ hFetch = <<>>
    /\ hStatus = 0
    /\ hBody = ""
    /\ hIcs = <<>>
    /\ hostTZ = "UTC"
    /\ clock = Clock0
    /\ TextIdle
    /\ DateIdle
    /\ IcsIdle
    /\ ClientIdle

storeVars == <<hReq, dbPrefs, dbFault, envVars, textVars, dateVars, icsVars, clientVars>>

\* return new Response(body, { status })
Reply(status, body) ==
    /\ hStatus' = status
    /\ hBody' = body
    /\ hIcs' = <<>>
    /\ hPc' = "done"

\* events.sort(...), generateICS(sortedEvents) and the 200 response.
ReplyCalendar(events) ==
    /\ \E sorted \in {sortedEvents(hostTZ, events)} :
           /\ hEvents' = sorted
           /\ hIcs' = generateICS(hostTZ, clock, sorted)
    /\ hStatus' = 200
    /\ hBody' = ""
    /\ hPc' = "done"

\* From the request to the await of the feed_preferences query.
Receive ==
    /\ hPc = "start"
    /\ IF hReq.method = "OPTIONS"
       THEN Reply(200, "ok") /\ UNCHANGED hToken
       ELSE \E token \in { IF Truthy(hReq.token) THEN hReq.token
                           ELSE extractTokenFromPath(hReq.pathname) } :
                IF ~Truthy(token)
                THEN Reply(400, "Missing token parameter") /\ UNCHANGED hToken
                ELSE /\ hToken' = token
                     /\ hPc' = "prefs"
                     /\ UNCHANGED <<hStatus, hBody, hIcs>>
    /\ UNCHANGED <<hTopicIds, hMajorNames, hEvents, hMajors, hFetch, storeVars>>

\* From the answer of the feed_preferences query to the next await.
PrefsReturn ==
    /\ hPc = "prefs"
    /\ \E result \in { IF dbFault = "feed_preferences"
                       THEN [data |-> NoData, error |-> "fetch failed"]
                       ELSE single(PrefsFor(hToken)) } :
           IF result.error # "none"
           THEN /\ Reply(500, "Failed to fetch preferences")
                /\ UNCHANGED <<hTopicIds, hMajorNames, hEvents>>
           ELSE IF PrefsMissing(result.data)
           THEN /\ Reply(404, "No preferences found for this token")
                /\ UNCHANGED <<hTopicIds, hMajorNames, hEvents>>
           ELSE /\ hTopicIds' = TopicIdsOf(result.data.topic_id.items)
                /\ hMajorNames' = MajorNamesOf(result.data.topic_id.items)
                /\ IF hTopicIds' # <<>>
                   THEN hPc' = "events" /\ UNCHANGED <<hEvents, hStatus, hBody, hIcs>>
                   ELSE IF hMajorNames' # <<>>
                   THEN hPc' = "majors" /\ UNCHANGED <<hEvents, hStatus, hBody, hIcs>>
                   ELSE ReplyCalendar(<<>>)
    /\ UNCHANGED <<hToken, hMajors, hFetch, storeVars>>

\* From the answer of the events query to the next await.
EventsReturn ==
    /\ hPc = "events"
    /\ IF dbFault = "events"
       THEN Reply(500, "Failed to fetch calendar events") /\ UNCHANGED hEvents
       ELSE \E dbEvents \in {SelectIn(EventsTable, "topic_id", hTopicIds)} :
                IF hMajorNames # <<>>
                THEN /\ hEvents' = dbEvents
                     /\ hPc' = "majors"
                     /\ UNCHANGED <<hStatus, hBody, hIcs>>
                ELSE ReplyCalendar(dbEvents)
    /\ UNCHANGED <<hToken, hTopicIds, hMajorNames, hMajors, hFetch, storeVars>>

\* Mutant of MajorsReturn: a failing majors query counts as no source and
\* the handler answers with the events it has.
MajorsReturnDegrades ==
    /\ hPc = "majors"
    /\ IF dbFault = "majors"
       THEN /\ ReplyCalendar(hEvents)
            /\ UNCHANGED <<hMajors, hFetch>>
       ELSE /\ hMajors' = SelectIn(MajorsTable, "name", hMajorNames)
            /\ hFetch' = [i \in 1..Len(hMajors') |->
                             [pc |-> "fetching", outcome |-> "pending",
                              doc |-> <<>>, events |-> <<>>, at |-> 0]]
            /\ hPc' = "fetching"
            /\ UNCHANGED <<hEvents, hStatus, hBody, hIcs>>
    /\ UNCHANGED <<hToken, hTopicIds, hMajorNames, storeVars>>

\* From the answer of the majors query to the await of Promise.all: every
\* promise of majorEventsPromises has called fetch.
MajorsReturn ==
    /\ hPc = "majors"
    /\ IF dbFault = "majors"
       THEN /\ Reply(500, "Failed to fetch major information")
            /\ UNCHANGED <<hMajors, hFetch>>
       ELSE /\ hMajors' = SelectIn(MajorsTable, "name", hMajorNames)
            /\ hFetch' = [i \in 1..Len(hMajors') |->
                             [pc |-> "fetching", outcome |-> "pending",
                              doc |-> <<>>, events |-> <<>>, at |-> 0]]
            /\ hPc' = "fetching"
            /\ UNCHANGED <<hStatus, hBody, hIcs>>
    /\ UNCHANGED <<hToken, hTopicIds, hMajorNames, hEvents, storeVars>>

\* The promises of majorEventsPromises that have settled so far; a promise
\* that settles takes the next place (at) in the order of settling.
Settled == Cardinality({j \in DOMAIN hFetch : hFetch[j].pc = "done"})

fetchFrame ==
    <<hPc, hToken, hTopicIds, hMajorNames, hEvents, hMajors, hStatus, hBody, hIcs, storeVars>>

\* Mutant of SourceFails: the failure of a source is not caught and the
\* handler answers 500.
SourceFailsAborts(i, how) ==
    /\ Reply(500, how)
    /\ hFetch' = [hFetch EXCEPT ![i] = [pc |-> "done", outcome |-> how,
                                        doc |-> <<>>, events |-> <<>>,
                                        at |-> Settled + 1]]
    /\ UNCHANGED <<hToken, hTopicIds, hMajorNames, hEvents, hMajors, storeVars>>

\* return [] of promise i: the response was not ok, the body was empty, or
\* fetch or text() threw and the catch took it.
SourceFails(i, how) ==
    /\ hFetch' = [hFetch EXCEPT ![i] = [pc |-> "done", outcome |-> how,
                                        doc |-> <<>>, events |-> <<>>,
                                        at |-> Settled + 1]]
    /\ UNCHANGED fetchFrame

\* Promise i, from the answer of fetch to the await of icsResponse.text().
FetchReturn(i) ==
    /\ hPc = "fetching"
    /\ i \in DOMAIN hFetch
    /\ hFetch[i].pc = "fetching"
    /\ \/ SourceFails(i, "throw")
       \/ SourceFails(i, "http")
       \/ /\ hFetch' = [hFetch EXCEPT ![i].pc = "reading"]
          /\ UNCHANGED fetchFrame

\* Promise i, from the answer of icsResponse.text() to its end.
TextReturn(i) ==
    /\ hPc = "fetching"
    /\ i \in DOMAIN hFetch
    /\ hFetch[i].pc = "reading"
    /\ \/ SourceFails(i, "throw")
       \/ SourceFails(i, "empty")
       \/ \E icsText \in HandlerDocs :
              /\ hFetch' = [hFetch EXCEPT ![i] =
                               [pc |-> "done", outcome |-> "ok", doc |-> icsText,
                                events |-> parseICS(hostTZ, icsText, hMajors[i].name[1]),
                                at |-> Settled + 1]]
              /\ UNCHANGED fetchFrame

\* Mutant of AllSettled: the handler answers as soon as one promise has
\* settled, as with Promise.race.
AnySettled ==
    /\ hPc = "fetching"
    /\ \/ hFetch = <<>>
       \/ \E i \in DOMAIN hFetch : hFetch[i].pc = "done"
    /\ ReplyCalendar(hEvents \o Flatten([i \in DOMAIN hFetch |-> hFetch[i].events]))
    /\ UNCHANGED <<hToken, hTopicIds, hMajorNames, hMajors, hFetch, storeVars>>

\* Mutant of AllSettled: the events of the sources are joined in the order
\* in which the promises settled, as when each promise pushes to a shared
\* array.
AllSettledByArrival ==
    /\ hPc = "fetching"
    /\ \A i \in DOMAIN hFetch : hFetch[i].pc = "done"
    /\ ReplyCalendar(hEvents \o Flatten([k \in DOMAIN hFetch |->
                                            hFetch[CHOOSE i \in DOMAIN hFetch :
                                                       hFetch[i].at = k].events]))
    /\ UNCHANGED <<hToken, hTopicIds, hMajorNames, hMajors, hFetch, storeVars>>

\* From the end of Promise.all to the response.
AllSettled ==
    /\ hPc = "fetching"
    /\ \A i \in DOMAIN hFetch : hFetch[i].pc = "done"
    /\ ReplyCalendar(hEvents \o Flatten([i \in DOMAIN hFetch |-> hFetch[i].events]))
    /\ UNCHANGED <<hToken, hTopicIds, hMajorNames, hMajors, hFetch, storeVars>>

Next ==
    \/ Receive
    \/ PrefsReturn
    \/ EventsReturn
    \/ MajorsReturn
    \/ \E i \in 1..Len(MajorsTable) : FetchReturn(i)
    \/ \E i \in 1..Len(MajorsTable) : TextReturn(i)
    \/ AllSettled

Spec == HandlerInit /\ [][Next]_vars

\* The runtime resumes the handler whenever a promise it awaits has settled,
\* and every query of the store, every fetch and every read of a body
\* settles: while a step of the request can be taken, one is.
\* The requests are those of Spec, with the topic ids of an array in one
\* order and without repetition.
TopicOrder ==
    << <<"Basketball">>, <<"Chess">>, <<"major:", "CS">>, <<"major:", "Math">>,
       <<"major:", "major:", "CS">>, <<"club-", "major:", "CS">> >>

TopicIndex(t) == CHOOSE k \in 1..Len(TopicOrder) : TopicOrder[k] = t

InTopicOrder(items) ==
    \A i, j \in 1..Len(items) :
        i < j => (/\ items[i] \in Topics \cup PrefixTopics
                  /\ items[j] \in Topics \cup PrefixTopics
                  /\ TopicIndex(items[i]) < TopicIndex(items[j]))

SettlingInit ==
    /\ HandlerInit
    /\ \A k \in 1..Len(dbPrefs) : InTopicOrder(dbPrefs[k].topic_id.items)

SpecSettling == SettlingInit /\ [][Next]_vars /\ WF_vars(Next)

(***************************************************************************)
(* Properties of parseICS and generateICS, over SpecICS.                   *)
(***************************************************************************)
\* The elements of S in increasing order.
RECURSIVE SortedSeq(_)
SortedSeq(S) ==
    IF S = {} THEN <<>>
    ELSE LET m == CHOOSE k \in S : \A j \in S : k <= j
         IN  <<m>> \o SortedSeq(S \ {m})

\* A DTSTART line of one of the forms DTSTART:, DTSTART;VALUE=DATE:,
\* DTSTART;TZID=zone:, DTSTART;VALUE=DATE;TZID=zone:.
IsStartLine(l) ==
    /\ l.name = "DTSTART"
    /\ \/ l.params \in { <<>>, <<"VALUE=DATE">> }
       \/ \E z \in {"TZID=America/Los_Angeles", "TZID=America/New_York"} :
              l.params \in { <<z>>, <<"VALUE=DATE", z>> }

\* The block's first DTSTART line exists and parseICSDate reads its value.
HasParseableStart(zone, block) ==
    LET starts == {k \in 1..Len(block) : IsStartLine(block[k])}
    IN  /\ starts # {}
        /\ parseICSDate(zone, block[CHOOSE k \in starts : \A j \in starts : k <= j].value) # NoDate

\* The blocks of the parsed document, and the positions of those with a
\* parseable DTSTART, in order.
DocBlocks == MatchVEvents(gDoc, 1)

KeptBlocks == SortedSeq({k \in 1..Len(DocBlocks) : HasParseableStart(hostTZ, DocBlocks[k])})

\* The value of the first line named name of a block; Null without one.
BlockProp(block, name) ==
    LET hits == {k \in 1..Len(block) : block[k].name = name}
    IN  IF hits = {} THEN Null
        ELSE block[CHOOSE k \in hits : \A j \in hits : k <= j].value

\* An event but for its id.
SansId(event) == [event EXCEPT !.id = <<>>]

FeedParsed == gPc \in {"events", "done"} /\ gDoc # <<>>

Rendered(events) ==
    SelectSeq(events, LAMBDA e : Truthy(e.start_time) \/ Truthy(e.event_date))

\* The positions of the BEGIN:VEVENT lines of a document, in order.
OutBegins(out) ==
    SortedSeq({k \in 1..Len(out) : out[k] = Line("BEGIN", <<"VEVENT">>)})

\* The value of the line named name in the VEVENT that begins at line b of
\* out; Null without one.
OutProp(out, b, name) ==
    LET ends == {k \in b..Len(out) : out[k] = Line("END", <<"VEVENT">>)}
        e    == CHOOSE k \in ends : \A j \in ends : k <= j
        hits == {k \in b..e : out[k].name = name}
    IN  IF hits = {} THEN Null ELSE out[CHOOSE k \in hits : TRUE].value

\* An event that is rendered as all-day: without a time (or time_tbd) and
\* with an event_date.
AllDayEvent(e) == (e.time_tbd \/ ~Truthy(e.start_time)) /\ Truthy(e.event_date)

DaysInMonth(y, m) ==
    IF m = 2 THEN (IF (y % 4 = 0 /\ y % 100 # 0) \/ y % 400 = 0 THEN 29 ELSE 28)
    ELSE IF m \in {4, 6, 9, 11} THEN 30 ELSE 31

\* YYYYMMDD of a year, month and day.
CompactYMD(y, m, d) == NatToChars(y) \o Pad2(m) \o Pad2(d)

\* YYYYMMDD of the civil day after the day of the text YYYY-MM-DD.
NextCivilDay(text) ==
    LET y == DigitsValue(SubSeq(text, 1, 4))
        m == DigitsValue(SubSeq(text, 6, 7))
        d == DigitsValue(SubSeq(text, 9, 10))
    IN  IF d < DaysInMonth(y, m) THEN CompactYMD(y, m, d + 1)
        ELSE IF m < 12 THEN CompactYMD(y, m + 1, 1)
        ELSE CompactYMD(y + 1, 1, 1)

\* YYYYMMDD of the text YYYY-MM-DD.
CompactDay(text) == SubSeq(text, 1, 4) \o SubSeq(text, 6, 7) \o SubSeq(text, 9, 10)

\* C7: every event rendered as all-day from its event_date D has
\* DTSTART;VALUE=DATE:D and DTEND;VALUE=DATE: the civil day after D, month and
\* year ends rolled over, whatever end_time the event has and whatever DTEND
\* its feed block had.
C7_AllDayNextDay ==
    gPc = "done" =>
        LET r == Rendered(gEvents)
            b == OutBegins(gOut)
        IN  /\ Len(b) = Len(r)
            /\ \A j \in 1..Len(r) :
                  AllDayEvent(r[j]) =>
                      /\ OutProp(gOut, b[j], "DTSTART;VALUE=DATE") = CompactDay(r[j].event_date)
                      /\ OutProp(gOut, b[j], "DTEND;VALUE=DATE") = NextCivilDay(r[j].event_date)

\* C7 witness: an all-day event on 2025-12-31 that carries an end_time has
\* been written with DTEND;VALUE=DATE:20260101.
C7_Witness ==
    /\ gPc = "done"
    /\ \E j \in 1..Len(gEvents) : gEvents[j] = RowAllDay
    /\ \E k \in 1..Len(gOut) :
           gOut[k] = Line("DTEND;VALUE=DATE", <<"2", "0", "2", "6", "0", "1", "0", "1">>)

\* C9: a timed store event's DTSTART is its start_time read as Pacific civil
\* time when the text has no zone marker ('2025-03-10 14:00:00' gives
\* 20250310T210000Z), and by its marker alone when it has one.
C9_NaiveIsPacific ==
    gPc = "done" =>
        LET r == Rendered(gEvents)
            b == OutBegins(gOut)
        IN  \A j \in 1..Len(r) :
                ~AllDayEvent(r[j]) =>
                    OutProp(gOut, b[j], "DTSTART")
                        = formatICSDate(DateParse("America/Los_Angeles", r[j].start_time))

\* The RRULE values with a FREQ the interpreter supports.
SupportedRRules == { <<"FREQ=WEEKLY", ";", "COUNT=4">> }

\* C10: the event parsed from a feed block with an RRULE of a supported FREQ
\* has a recurrence (for FREQ=WEEKLY;COUNT=4, an until four weeks after the
\* instant of interpretation), and its VEVENT in the generated document has
\* an RRULE line.
C10_FeedRecurrence ==
    FeedParsed =>
        \A j \in 1..Len(KeptBlocks) :
            BlockProp(DocBlocks[KeptBlocks[j]], "RRULE") \in SupportedRRules =>
                /\ j <= Len(gEvents)
                /\ Truthy(gEvents[j].recurrence_frequency)
                /\ Truthy(gEvents[j].recurrence_until)
                /\ DateParse(hostTZ, gEvents[j].recurrence_until) = clock + 4 * 7 * SecPerDay
                /\ gPc = "done" => OutProp(gOut, OutBegins(gOut)[j], "RRULE") # Null

\* The lines of the VEVENT that begins at line b of out.
OutBlock(out, b) ==
    LET ends == {k \in b..Len(out) : out[k] = Line("END", <<"VEVENT">>)}
    IN  SubSeq(out, b, CHOOSE k \in ends : \A j \in ends : k <= j)

\* YYYYMMDDTHHMMSSZ.
IsUTCDateTime(s) == Len(s) = 16 /\ IsDateTimeShape(s)

\* A DTSTART or DTEND line of the form name:YYYYMMDDTHHMMSSZ or
\* name;VALUE=DATE:YYYYMMDD.
WellFormedDateLine(l, name) ==
    \/ l.name = name /\ IsUTCDateTime(l.value)
    \/ l.name = name \o ";VALUE=DATE" /\ IsDateShape(l.value)

IsDateLine(l, name) == l.name \in {name, name \o ";VALUE=DATE"}

\* The event has a start generateICS can determine: the event_date of the
\* all-day form, or else the start_time, is read by Date.
DeterminableStart(zone, e) ==
    /\ Truthy(e.start_time) \/ Truthy(e.event_date)
    /\ IF IsAllDay(e) THEN DateParse(zone, e.event_date \o MidnightZ) # NaN
       ELSE Truthy(e.start_time) /\ DateParse(zone, e.start_time) # NaN

\* C16: whatever the events, every VEVENT of the document has exactly one
\* DTSTART line and one DTEND line, each with a well-formed date or
\* date-time; the document has a VEVENT for each event with a determinable
\* start and for no other, and is closed by END:VCALENDAR.
C16_DatesWellFormed ==
    gPc = "done" =>
        LET b == OutBegins(gOut)
        IN  /\ gOut[Len(gOut)] = Line("END", <<"VCALENDAR">>)
            /\ Len(b) = Cardinality({j \in 1..Len(gEvents) : DeterminableStart(hostTZ, gEvents[j])})
            /\ \A k \in 1..Len(b) :
                  \E block \in {OutBlock(gOut, b[k])} :
                      /\ Cardinality({i \in 1..Len(block) : IsDateLine(block[i], "DTSTART")}) = 1
                      /\ Cardinality({i \in 1..Len(block) : IsDateLine(block[i], "DTEND")}) = 1
                      /\ \A i \in 1..Len(block) :
                            /\ IsDateLine(block[i], "DTSTART") => WellFormedDateLine(block[i], "DTSTART")
                            /\ IsDateLine(block[i], "DTEND") => WellFormedDateLine(block[i], "DTEND")

\* The first DTSTART line of the block that gave the j-th event.
StartLineOf(j) ==
    LET block  == DocBlocks[KeptBlocks[j]]
        starts == {k \in 1..Len(block) : IsStartLine(block[k])}
    IN  block[CHOOSE k \in starts : \A i \in starts : k <= i]

\* The two forms of a feed event.
TimedForm(e) == Truthy(e.start_time) /\ ~e.time_tbd /\ e.event_date = Null

AllDayForm(e) ==
    Truthy(e.event_date) /\ e.time_tbd /\ e.start_time = Null /\ e.end_time = Null

\* C17: every event of parseICS is timed or all-day, and is all-day whenever
\* its DTSTART carries VALUE=DATE or has an 8-digit value.
C17_AllDayByParamOrValue ==
    FeedParsed =>
        \A j \in 1..Len(gEvents) :
            /\ TimedForm(gEvents[j]) \/ AllDayForm(gEvents[j])
            /\ (j <= Len(KeptBlocks)) =>
                  \E l \in {StartLineOf(j)} :
                      ((l.params # <<>> /\ Head(l.params) = "VALUE=DATE") \/ IsDateShape(trim(l.value)))
                          => AllDayForm(gEvents[j])

\* C17 as amended: every event of parseICS is timed or all-day, and is
\* all-day exactly when the value of its DTSTART is an 8-digit date; a
\* date-time under VALUE=DATE gives the timed form.
C17_AllDayByValue ==
    FeedParsed =>
        /\ Len(gEvents) = Len(KeptBlocks)
        /\ \A j \in 1..Len(gEvents) :
              /\ TimedForm(gEvents[j]) \/ AllDayForm(gEvents[j])
              /\ (AllDayForm(gEvents[j]) <=> IsDateShape(trim(StartLineOf(j).value)))

\* C17 witness: the block with DTSTART;VALUE=DATE:20250312T090000Z gave a
\* timed event, and the block with DTSTART;VALUE=DATE:20251231 an all-day
\* one.
C17_Witness ==
    /\ FeedParsed
    /\ Len(gEvents) = 2
    /\ gEvents[1].id = <<"u8">> /\ TimedForm(gEvents[1]) /\ Truthy(gEvents[1].end_time)
    /\ gEvents[2].id = <<"u2">> /\ AllDayForm(gEvents[2])

\* C18: generateICS writes an event in the all-day form, with
\* DTSTART;VALUE=DATE, exactly when its event_date is set and its start_time
\* is absent or its time_tbd is true; every other event it keeps is written
\* in the timed form, with the DTSTART of its start_time.
C18_AllDayExactlyWhen ==
    gPc = "done" =>
        LET r == Rendered(gEvents)
            b == OutBegins(gOut)
        IN  /\ Len(b) = Len(r)
            /\ \A j \in 1..Len(r) :
                  IF Truthy(r[j].event_date) /\ (~Truthy(r[j].start_time) \/ r[j].time_tbd)
                  THEN /\ OutProp(gOut, b[j], "DTSTART;VALUE=DATE") # Null
                       /\ OutProp(gOut, b[j], "DTSTART") = Null
                  ELSE /\ OutProp(gOut, b[j], "DTSTART;VALUE=DATE") = Null
                       /\ OutProp(gOut, b[j], "DTSTART")
                              = formatICSDate(DateParse(hostTZ, r[j].start_time))

\* C18 witness: of two events with time_tbd and the start_time
\* 2024-02-28T17:00:00+00:00, the one with an event_date was written all-day
\* and the one without it timed.
C18_Witness ==
    /\ gPc = "done"
    /\ gEvents = <<RowTBD, RowTBDNoDate>>
    /\ OutProp(gOut, OutBegins(gOut)[1], "DTSTART;VALUE=DATE")
           = <<"2", "0", "2", "4", "0", "2", "2", "8">>
    /\ OutProp(gOut, OutBegins(gOut)[2], "DTSTART")
           = <<"2", "0", "2", "4", "0", "2", "2", "8", "T", "1", "7", "0", "0", "0", "0", "Z">>

\* C19: a timed event is written with the DTEND of its end_time when Date
\* reads it, earlier than the start or not, and with that of its start_time
\* plus one hour when it has no end_time or Date does not read it.
C19_TimedEnd ==
    gPc = "done" =>
        LET r == Rendered(gEvents)
            b == OutBegins(gOut)
        IN  /\ Len(b) = Len(r)
            /\ \A j \in 1..Len(r) :
                  (~AllDayEvent(r[j]) /\ DateParse(hostTZ, r[j].start_time) # NaN) =>
                      OutProp(gOut, b[j], "DTEND") =
                          IF Truthy(r[j].end_time) /\ DateParse(hostTZ, r[j].end_time) # NaN
                          THEN formatICSDate(DateParse(hostTZ, r[j].end_time))
                          ELSE formatICSDate(DateParse(hostTZ, r[j].start_time) + SecPerHour)

\* The description holds 'TBD' or 'To Be Determined' in some letter case.
NamesTBD(description) ==
    \E low \in {Lower(description)} :
        Includes(low, Lower(TBDText)) \/ Includes(low, Lower(ToBeDeterminedText))

\* C20: when the time of an event is TBD, its DESCRIPTION is its description
\* with '[Time TBD]' appended exactly when the description holds neither
\* 'TBD' nor 'To Be Determined' in any letter case ('time tbd' is written
\* as it is); an event whose time is not TBD is written with its own
\* description.
C20_MarkerUnlessNamed ==
    gPc = "done" =>
        LET r == Rendered(gEvents)
            b == OutBegins(gOut)
        IN  /\ Len(b) = Len(r)
            /\ \A j \in 1..Len(r) :
                  \E own \in {IF Truthy(r[j].description) THEN r[j].description ELSE <<>>} :
                      \E written \in {IF IsTimeTBD(r[j]) /\ ~NamesTBD(own)
                                      THEN (IF own # <<>> THEN own \o <<" ">> ELSE <<>>)
                                               \o TimeTBDMark
                                      ELSE own} :
                          OutProp(gOut, b[j], "DESCRIPTION") =
                              IF written = <<>> THEN Null ELSE escapeICSText(written)

\* The two-letter day of BYDAY for a day of the week, 0 = Sunday.
ByDayCodes == <<"SU", "MO", "TU", "WE", "TH", "FR", "SA">>

\* The event has a weekly recurrence that generateICS writes: a frequency
\* that is WEEKLY in some letter case and an until that Date reads.
WeeklyRecurrence(zone, e) ==
    /\ Truthy(e.recurrence_frequency)
    /\ Truthy(e.recurrence_until)
    /\ FreqUpper(e.recurrence_frequency[1]) = "WEEKLY"
    /\ \E untilStr \in {trim(e.recurrence_until)} :
           (IF IsDashedDate(untilStr) THEN DateParse(zone, untilStr \o EndOfDayZ)
            ELSE DateParse(zone, untilStr)) # NaN

\* The day of BYDAY of the start the event is written with.
StartByDay(zone, e) ==
    ByDayCodes[WeekDay(StartDate(zone, e) \div SecPerDay) + 1]

\* The RRULE value has FREQ=WEEKLY and an UNTIL part.
HasWeeklyUntil(rrule) ==
    /\ rrule # Null
    /\ Len(rrule) > 3
    /\ SubSeq(rrule, 1, 3) = <<"FREQ=", "WEEKLY", ";UNTIL=">>
    /\ IsUTCDateTime(SubSeq(rrule, 4, 19))

\* The RRULE value has a BYDAY part naming day.
HasByDay(rrule, day) ==
    /\ rrule # Null
    /\ \E k \in 1..(Len(rrule) - 1) :
           rrule[k] \in {"BYDAY=", ";BYDAY="} /\ rrule[k + 1] = day

\* C21: the RRULE line of an event with a weekly recurrence has FREQ=WEEKLY,
\* an UNTIL part and a BYDAY part naming the day of the week of the event's
\* start.
C21_WeeklyByDay ==
    gPc = "done" =>
        LET r == Rendered(gEvents)
            b == OutBegins(gOut)
        IN  /\ Len(b) = Len(r)
            /\ \A j \in 1..Len(r) :
                  (WeeklyRecurrence(hostTZ, r[j]) /\ StartDate(hostTZ, r[j]) # NaN) =>
                      \E rrule \in {OutProp(gOut, b[j], "RRULE")} :
                          /\ HasWeeklyUntil(rrule)
                          /\ HasByDay(rrule, StartByDay(hostTZ, r[j]))

\* The zone a TZID parameter names; "" for a line without one.
ZoneOfLine(l) ==
    IF \E k \in 1..Len(l.params) : l.params[k] = "TZID=America/Los_Angeles"
    THEN "America/Los_Angeles"
    ELSE IF \E k \in 1..Len(l.params) : l.params[k] = "TZID=America/New_York"
    THEN "America/New_York"
    ELSE ""

\* The offset from UTC, in seconds, of a named zone at a wall-clock time:
\* Eastern time is three hours ahead of Pacific time and changes on the same
\* days at the same wall-clock hour.
CivilOffset(zone, wall) ==
    IF zone = "America/New_York"
    THEN ZoneOffsetAtLocal("America/Los_Angeles", wall) + 3 * SecPerHour
    ELSE ZoneOffsetAtLocal(zone, wall)

\* A date-time without Z: YYYYMMDDTHHMMSS.
IsFloatingDateTime(s) == Len(s) = 15 /\ IsDateTimeShape(s)

\* The instant of YYYYMMDDTHHMMSS as civil time of a named zone.
InstantInZone(zone, value) ==
    Only({ wall - CivilOffset(zone, wall) : wall \in {parseICSDate("UTC", value \o <<"Z">>)} })

\* The first DTEND line of the block that gave the j-th event; a line
\* without value when the block has none.
EndLineOf(j) ==
    LET block == DocBlocks[KeptBlocks[j]]
        ends  == {k \in 1..Len(block) : block[k].name = "DTEND"}
    IN  IF ends = {} THEN FeedLine("DTEND", <<>>, <<>>)
        ELSE block[CHOOSE k \in ends : \A i \in ends : k <= i]

\* C22: the start (and the end) of an event read from a DTSTART (DTEND) with
\* a TZID and a date-time without Z is the wall-clock value as civil time of
\* the named zone, whatever the zone of the host; so two blocks that differ
\* in TZID only give instants that differ by the difference of the offsets
\* of the two zones.
C22_TZIDCivilTime ==
    FeedParsed =>
        /\ Len(gEvents) = Len(KeptBlocks)
        /\ \A j \in 1..Len(gEvents) :
              \E l \in {StartLineOf(j)} :
                  (ZoneOfLine(l) # "" /\ IsFloatingDateTime(trim(l.value))) =>
                      /\ Truthy(gEvents[j].start_time)
                      /\ DateParse(hostTZ, gEvents[j].start_time)
                             = InstantInZone(ZoneOfLine(l), trim(l.value))
                      /\ \E d \in {EndLineOf(j)} :
                             (ZoneOfLine(d) # "" /\ IsFloatingDateTime(trim(d.value))) =>
                                 /\ Truthy(gEvents[j].end_time)
                                 /\ DateParse(hostTZ, gEvents[j].end_time)
                                        = InstantInZone(ZoneOfLine(d), trim(d.value))
        /\ \A j, k \in 1..Len(gEvents) :
              \E lj \in {StartLineOf(j)}, lk \in {StartLineOf(k)} :
                  (/\ ZoneOfLine(lj) # "" /\ ZoneOfLine(lk) # ""
                   /\ IsFloatingDateTime(trim(lj.value))
                   /\ lj.value = lk.value) =>
                      DateParse(hostTZ, gEvents[j].start_time) - DateParse(hostTZ, gEvents[k].start_time)
                          = InstantInZone(ZoneOfLine(lj), trim(lj.value))
                                - InstantInZone(ZoneOfLine(lk), trim(lk.value))

(***************************************************************************)
(* Properties of the serve handler, over Spec.                             *)
(***************************************************************************)
\* The number of positions of seq that hold x.
CountIn(seq, x) == Cardinality({k \in 1..Len(seq) : seq[k] = x})

\* The UID values of the VEVENTs of a document, in order.
OutUIDs(out) ==
    LET uids == SelectSeq(out, LAMBDA l : l.name = "UID")
    IN  [k \in 1..Len(uids) |-> uids[k].value]

\* The UID values a list of events is written with.
EventUIDs(events) ==
    [k \in 1..Len(events) |-> events[k].id \o <<"@nexus-sync">>]

\* The rows of the events table of the direct topics of the request that
\* have a start_time or an event_date.
RetainedStoreEvents ==
    Rendered(SelectSeq(EventsTable,
                       LAMBDA row : \E k \in 1..Len(hTopicIds) : row.topic_id = hTopicIds[k]))

\* The events parsed from the documents of the sources whose fetch
\* succeeded.
SucceededFeedEvents ==
    Flatten([i \in DOMAIN hFetch |->
                IF hFetch[i].outcome = "ok"
                THEN parseICS(hostTZ, hFetch[i].doc, hMajors[i].name[1])
                ELSE <<>>])

SourcesFetched == hPc = "done" /\ hFetch # <<>>

\* C1: once the sources selected by the request have been fetched, whichever
\* of them failed (status not ok, empty body, fetch or text() threw), the
\* response is 200 and its document has exactly one VEVENT for each retained
\* store event of the direct topics and for each event parsed from a source
\* whose fetch succeeded: a failed source adds no VEVENT and removes none.
C1_FailedSourcesIsolated ==
    SourcesFetched =>
        /\ hStatus = 200
        /\ LET expected == EventUIDs(RetainedStoreEvents \o SucceededFeedEvents)
               written  == OutUIDs(hIcs)
           IN  /\ Len(written) = Len(expected)
               /\ \A k \in 1..Len(expected) :
                      CountIn(written, expected[k]) = CountIn(expected, expected[k])

\* C1 witness: of two sources one answered with a status that is not ok and
\* the other with a document of one event; the response is 200 and has the
\* VEVENT of that event and those of the two Basketball rows.
C1_Witness ==
    /\ SourcesFetched
    /\ Len(hFetch) = 2
    /\ hFetch[1].outcome = "http"
    /\ hFetch[2].outcome = "ok"
    /\ hTopicIds = << <<"Basketball">> >>
    /\ hStatus = 200
    /\ Len(OutUIDs(hIcs)) = 3

\* The effective instant of an event: its start_time when it has one, else
\* midnight UTC of its event_date.
EffectiveInstant(e) ==
    IF Truthy(e.start_time) THEN DateParse(hostTZ, e.start_time)
    ELSE DateParse(hostTZ, e.event_date \o MidnightZ)

\* The event of hEvents written with the UID value uid.
EventOfUID(uid) ==
    hEvents[CHOOSE k \in 1..Len(hEvents) : hEvents[k].id \o <<"@nexus-sync">> = uid]

\* C2: the VEVENTs of the returned document are in ascending order of the
\* effective instant of their events, so that an event with an event_date
\* only stands among the timed events by its date.
C2_AscendingEffectiveInstant ==
    (hPc = "done" /\ hStatus = 200 /\ hReq.method = "GET") =>
        LET uids == OutUIDs(hIcs)
        IN  \A j, k \in 1..Len(uids) :
                j < k => EffectiveInstant(EventOfUID(uids[j])) <= EffectiveInstant(EventOfUID(uids[k]))

\* The token of the request has exactly one feed_preferences row, whose
\* topic_id is the empty array, and no query of the store fails.
EmptyPreferenceSet ==
    /\ hReq.method = "GET"
    /\ hToken = <<"tok">>
    /\ dbPrefs = << [topic_id |-> [kind |-> "array", items |-> <<>>]] >>
    /\ dbFault = "none"

MinimalDocument ==
    << Line("BEGIN", <<"VCALENDAR">>),
       Line("VERSION", <<"2.0">>),
       Line("PRODID", <<"-//Nexus Sync//Calendar Feed//EN">>),
       Line("CALSCALE", <<"GREGORIAN">>),
       Line("METHOD", <<"PUBLISH">>),
       Line("END", <<"VCALENDAR">>) >>

\* C5: when the preference set of the token is empty, the response is 200
\* and its document is the five header lines followed by END:VCALENDAR, with
\* no VEVENT.
C5_EmptyPreferencesMinimalDocument ==
    (hPc = "done" /\ EmptyPreferenceSet) => (hStatus = 200 /\ hIcs = MinimalDocument)

\* C5 witness: a request whose token has the empty array as topic_id has
\* been answered.
C5_Witness == hPc = "done" /\ EmptyPreferenceSet /\ hStatus = 200

\* C6: when the token of the request has no feed_preferences row and the
\* query itself does not fail, the response is 404 'No preferences found for
\* this token', not a calendar and not the 500 of a store error.
C6_NoRowIsNotFound ==
    (/\ hPc = "done"
     /\ hReq.method = "GET"
     /\ Truthy(hToken)
     /\ PrefsFor(hToken) = <<>>
     /\ dbFault # "feed_preferences")
        => (hStatus = 404 /\ hBody = "No preferences found for this token")

\* The request has been answered and its preference set was resolved: the
\* feed_preferences query gave a row with a topic_id.
PreferencesResolved ==
    /\ hPc = "done"
    /\ hReq.method # "OPTIONS"
    /\ Truthy(hToken)
    /\ dbFault # "feed_preferences"
    /\ single(PrefsFor(hToken)).error = "none"
    /\ ~PrefsMissing(single(PrefsFor(hToken)).data)

\* The events query, made when a direct topic is selected, fails.
EventsQueryFails == dbFault = "events" /\ hTopicIds # <<>>

\* The majors query, made when a major is selected and the events query did
\* not fail, fails.
MajorsQueryFails == dbFault = "majors" /\ hMajorNames # <<>>

\* C13: once the preference set has been resolved, no later failure makes
\* the handler return an error: with a failing events query or a failing
\* majors query the response is still a 200 calendar.
C13_NoLaterFailureIsFatal ==
    PreferencesResolved => hStatus = 200

\* C13 as amended: once the preference set has been resolved, a failing
\* events query is answered 500 'Failed to fetch calendar events', a failing
\* majors query 500 'Failed to fetch major information', neither with a
\* calendar; every other request is answered with a 200 calendar.
C13_QueryFailureIsFatal ==
    PreferencesResolved =>
        IF EventsQueryFails
        THEN hStatus = 500 /\ hBody = "Failed to fetch calendar events" /\ hIcs = <<>>
        ELSE IF MajorsQueryFails
        THEN hStatus = 500 /\ hBody = "Failed to fetch major information" /\ hIcs = <<>>
        ELSE hStatus = 200 /\ hIcs # <<>>

\* C13 witness: the events query gave two rows, the majors query failed and
\* the request was answered 500.
C13_Witness ==
    /\ PreferencesResolved
    /\ MajorsQueryFails
    /\ Len(hEvents) = 2
    /\ hStatus = 500

\* The position of a promise of majorEventsPromises: its fetch is awaited,
\* the text of its response is awaited, it has settled.
FetchRank(pc) == CASE pc = "fetching" -> 1 [] pc = "reading" -> 2 [] pc = "done" -> 3

\* The fetches are those of the sources of the registry, one each.
OneFetchPerSource == Len(hFetch) = Len(hMajors)

\* The step that creates the promises starts all of their fetches.
AllStartedAtOnce ==
    (hFetch = <<>> /\ hFetch' # <<>>) =>
        (Len(hFetch') = Len(hMajors') /\ \A i \in DOMAIN hFetch' : hFetch'[i].pc = "fetching")

\* No promise is started again or goes back, and a settled one stays as it
\* is.
NoRetry ==
    hFetch # <<>> =>
        /\ DOMAIN hFetch' = DOMAIN hFetch
        /\ \A i \in DOMAIN hFetch :
              /\ FetchRank(hFetch'[i].pc) >= FetchRank(hFetch[i].pc)
              /\ hFetch[i].pc = "done" => hFetch'[i] = hFetch[i]

\* While a promise has not settled the request has no response.
AnsweredAfterAllSettled ==
    hPc = "done" => \A i \in DOMAIN hFetch : hFetch[i].pc = "done"

\* A response, once sent, is the only one.
OneResponse ==
    hPc = "done" => (hPc' = "done" /\ UNCHANGED <<hStatus, hBody, hIcs>>)

\* C14: the handler starts exactly one fetch per source of the registry, all
\* in the step before it awaits any, never retries one, and answers only
\* after every one has settled; when every fetch settles the request
\* eventually gets a response, and only one; while a fetch has not settled
\* it gets none.
C14_FetchAllThenAnswer ==
    /\ [](OneFetchPerSource /\ AnsweredAfterAllSettled)
    /\ [][AllStartedAtOnce /\ NoRetry /\ OneResponse]_vars
    /\ <>(hPc = "done")

\* C14 witness: two sources were fetched, one failed and one gave a
\* document, and the request was answered once both had settled.
C14_Witness ==
    /\ hPc = "done"
    /\ Len(hFetch) = 2
    /\ hFetch[1].outcome = "ok"
    /\ hFetch[2].outcome = "throw"
    /\ hStatus = 200

\* The events of the request before events.sort: the rows of the events
\* table of its direct topics, then the events of the sources in the order
\* of the registry, those of one source in the order of its blocks.
EventsBeforeSort ==
    SelectIn(EventsTable, "topic_id", hTopicIds) \o SucceededFeedEvents

HasEffectiveInstant(e) == Truthy(e.start_time) \/ Truthy(e.event_date)

\* Two events the order leaves tied: equal effective instants, or none.
Tied(a, b) ==
    IF HasEffectiveInstant(a) /\ HasEffectiveInstant(b)
    THEN EffectiveInstant(a) = EffectiveInstant(b)
    ELSE ~HasEffectiveInstant(a) /\ ~HasEffectiveInstant(b)

\* The position in events of the event with an id.
PositionOf(events, id) == CHOOSE k \in 1..Len(events) : events[k].id = id

\* C15: in the sorted events of a 200 calendar, two events with equal
\* effective instants, or both without one, stand in the order they had
\* before the sort.
C15_StableMerge ==
    (hPc = "done" /\ hStatus = 200 /\ hReq.method = "GET") =>
        \E before \in {EventsBeforeSort} :
            /\ Len(hEvents) = Len(before)
            /\ \A i, j \in 1..Len(before) :
                  (i < j /\ Tied(before[i], before[j])) =>
                      PositionOf(hEvents, before[i].id) < PositionOf(hEvents, before[j].id)

\* The handler has partitioned the topic_id of the row of its token.
Partitioned ==
    /\ hPc \notin {"start", "prefs"}
    /\ Truthy(hToken)
    /\ dbFault # "feed_preferences"
    /\ single(PrefsFor(hToken)).error = "none"
    /\ ~PrefsMissing(single(PrefsFor(hToken)).data)

\* The entries of the preference list of the token, as stored.
StoredEntries == dbPrefs[1].topic_id.items

StartsWithMajor(t) == IsPrefix(<<"major:">>, t)

\* C23: the external-source list is the entries that start with 'major:',
\* in their order and as often as they occur, each without its first prefix
\* (a second prefix stays); the direct-topic list is the other entries, in
\* their order and as often as they occur, unchanged.
C23_PartitionByPrefix ==
    Partitioned =>
        \E arr \in {StoredEntries} :
            \E pm \in {SortedSeq({k \in 1..Len(arr) : StartsWithMajor(arr[k])})},
               pd \in {SortedSeq({k \in 1..Len(arr) : ~StartsWithMajor(arr[k])})} :
                /\ Len(hMajorNames) = Len(pm)
                /\ Len(hTopicIds) = Len(pd)
                /\ \A i \in 1..Len(pm) : <<"major:">> \o hMajorNames[i] = arr[pm[i]]
                /\ \A i \in 1..Len(pd) : hTopicIds[i] = arr[pd[i]]

\* C23 witness: the list major:major:CS, club-major:CS, major:major:CS has
\* been partitioned into the source major:CS twice and the topic
\* club-major:CS.
C23_Witness ==
    /\ Partitioned
    /\ StoredEntries = << <<"major:", "major:", "CS">>, <<"club-", "major:", "CS">>,
                          <<"major:", "major:", "CS">> >>
    /\ hMajorNames = << <<"major:", "CS">>, <<"major:", "CS">> >>
    /\ hTopicIds = << <<"club-", "major:", "CS">> >>

\* text split at its commas.
RECURSIVE SplitCommas(_)
SplitCommas(text) ==
    Only({ IF k = 0 THEN <<text>>
           ELSE <<SubSeq(text, 1, k - 1)>> \o SplitCommas(SubSeq(text, k + 1, Len(text))) :
           k \in {FirstIndex(text, 1, {COMMA})} })

\* The array a stored topic selection stands for: the array itself; for a
\* text, the topics of the JSON array or of the comma-separated list it
\* writes, or the text as the one topic.
EquivalentArray(value) ==
    IF value.kind = "array" THEN value.items
    ELSE SplitCommas(SelectSeq(value.items[1], LAMBDA c : c \notin {"[", "]", "\""}))

\* C24: the handler partitions a stored selection that is a text as it
\* partitions the array the text stands for, and the calendar it answers
\* with is the one of that array (stated for selections without external
\* source, whose calendar the store alone decides).
C24_LegacyNormalized ==
    (Partitioned /\ dbPrefs[1].topic_id.kind = "scalar") =>
        \E arr \in {EquivalentArray(dbPrefs[1].topic_id)} :
            /\ hTopicIds = TopicIdsOf(arr)
            /\ hMajorNames = MajorNamesOf(arr)
            /\ (hPc = "done" /\ dbFault = "none" /\ MajorNamesOf(arr) = <<>>) =>
                   /\ hStatus = 200
                   /\ hIcs = generateICS(hostTZ, clock,
                                         sortedEvents(hostTZ,
                                                      SelectIn(EventsTable, "topic_id",
                                                               TopicIdsOf(arr))))

RECURSIVE SumFrom(_, _)
SumFrom(ns, i) == IF i > Len(ns) THEN 0 ELSE ns[i] + SumFrom(ns, i + 1)

\* The sum of a sequence of numbers.
Sum(ns) == SumFrom(ns, 1)

\* The rows of the events table of a topic that generateICS writes.
RenderedRowsOf(topic) == Rendered(SelectSeq(EventsTable, LAMBDA row : row.topic_id = topic))

\* The events parsed from the document of the source with a name: none when
\* the registry has no such source or its fetch failed.
ParsedEventsOf(name) ==
    LET hits == {i \in DOMAIN hFetch : hMajors[i].name = name}
    IN  IF hits = {} THEN <<>> ELSE hFetch[CHOOSE i \in hits : TRUE].events

\* C25: the document of a 200 calendar has the events of a direct topic once
\* for each time the topic stands in the preference list, and those of an
\* external source once for each time the source stands in it: a topic or a
\* source listed twice gives each of its events twice.
C25_DuplicatesDoubled ==
    (Partitioned /\ hPc = "done" /\ hStatus = 200) =>
        \E written \in {OutUIDs(hIcs)} :
            /\ \A k \in 1..Len(EventsTable) :
                  (Truthy(EventsTable[k].start_time) \/ Truthy(EventsTable[k].event_date)) =>
                      CountIn(written, EventsTable[k].id \o <<"@nexus-sync">>)
                          = CountIn(hTopicIds, EventsTable[k].topic_id)
            /\ Len(written) =
                   Sum([k \in 1..Len(hTopicIds) |-> Len(RenderedRowsOf(hTopicIds[k]))])
                   + Sum([k \in 1..Len(hMajorNames) |-> Len(ParsedEventsOf(hMajorNames[k]))])

\* The position k holds the first occurrence of its entry.
FirstOccurrence(seq, k) == \A j \in 1..(k - 1) : seq[j] # seq[k]

\* C25 as amended: the document of a 200 calendar has the events of a listed
\* direct topic once and those of a listed external source once, however
\* often the topic or the source stands in the preference list, and each
\* listed source of the registry is fetched once.
C25_DuplicatesOnce ==
    (Partitioned /\ hPc = "done" /\ hStatus = 200) =>
        \E written \in {OutUIDs(hIcs)} :
            /\ \A k \in 1..Len(EventsTable) :
                  (Truthy(EventsTable[k].start_time) \/ Truthy(EventsTable[k].event_date)) =>
                      CountIn(written, EventsTable[k].id \o <<"@nexus-sync">>)
                          = IF CountIn(hTopicIds, EventsTable[k].topic_id) > 0 THEN 1 ELSE 0
            /\ Len(written) =
                   Sum([k \in 1..Len(hTopicIds) |->
                           IF FirstOccurrence(hTopicIds, k)
                           THEN Len(RenderedRowsOf(hTopicIds[k])) ELSE 0])
                   + Sum([k \in 1..Len(hMajorNames) |->
                             IF FirstOccurrence(hMajorNames, k)
                             THEN Len(ParsedEventsOf(hMajorNames[k])) ELSE 0])
            /\ Len(hFetch) =
                   Cardinality({i \in 1..Len(MajorsTable) :
                                   CountIn(hMajorNames, MajorsTable[i].name) > 0})

\* C25 witness: the list Basketball, Basketball, major:CS has been answered
\* with the two Basketball events once each and the one event of the source.
C25_Witness ==
    /\ Partitioned /\ hPc = "done" /\ hStatus = 200
    /\ StoredEntries = << <<"Basketball">>, <<"Basketball">>, <<"major:", "CS">> >>
    /\ Len(hFetch) = 1
    /\ Len(hFetch[1].events) = 1
    /\ Len(OutUIDs(hIcs)) = 3

\* A document but for what differs from one run to the next: the DTSTAMP
\* lines and the UID lines of ids made up by parseICS.
SansVolatile(out) ==
    SelectSeq(out, LAMBDA l : /\ l.name # "DTSTAMP"
                              /\ ~(l.name = "UID" /\ Contains(l.value, "Date.now()")))

\* The document the store and the bodies of the feeds decide: the rows of
\* the direct topics, then the events of each source in the order of the
\* registry, sorted and written.
DocumentOfInputs == generateICS(hostTZ, clock, sortedEvents(hostTZ, EventsBeforeSort))

\* C26: the VEVENTs of the response, their order and their content (but for
\* DTSTAMP and made-up ids), are decided by the store and the bodies of the
\* feeds alone: they are the same whichever source settles first.
C26_SettlingOrderIrrelevant ==
    (SourcesFetched /\ hStatus = 200) =>
        SansVolatile(hIcs) = SansVolatile(DocumentOfInputs)

\* C26 witness: the second source settled before the first, both with an
\* event at the same instant, and the response has the event of the first
\* source before that of the second.
C26_Witness ==
    /\ SourcesFetched /\ hStatus = 200
    /\ Len(hFetch) = 2
    /\ hFetch[1].at = 2 /\ hFetch[2].at = 1
    /\ Len(hFetch[1].events) = 1 /\ Len(hFetch[2].events) = 2
    /\ \E i, j \in 1..Len(OutUIDs(hIcs)) :
           /\ i < j
           /\ OutUIDs(hIcs)[i] = <<"u1", "@nexus-sync">>
           /\ OutUIDs(hIcs)[j] = <<"u10", "@nexus-sync">>

(***************************************************************************)
(* The web client's feed URLs: constructIcsUrl builds the URL of a token,  *)
(* extractTokenFromIcsUrl reads the token back, and the serve handler      *)
(* reads it from the path with extractTokenFromPath.                       *)
(***************************************************************************)
\* The longest token drawn.
MaxTokenLen == 3

\* A hexadecimal letter, another letter, a digit and the hyphen.
TokenAlphabet == {"a", "g", "0", "-"}

Tokens == SeqsUpTo(TokenAlphabet, MaxTokenLen) \ {<<>>}

\* import.meta.env of the client.
ClientEnvs ==
    { [VITE_SUPABASE_URL |-> u, VITE_SUPABASE_ANON_KEY |-> k] :
        u \in { Null, <<"https://", "ref", ".supabase.co">>, <<"https://", "ref", ".example.com">> },
        k \in { Null, <<"anon-key">> } }

\* The value of a call that threw.
Thrown == <<"throw">>

\* hostname.match(/^([^.]+)\.supabase\.co$/)
extractProjectRef(supabaseUrl) ==
    IF Len(supabaseUrl) = 3 /\ supabaseUrl[3] = ".supabase.co" THEN <<supabaseUrl[2]>>
    ELSE Thrown

FeedPath ==
    <<"/", "f", "u", "n", "c", "t", "i", "o", "n", "s", "/", "v", "1">>
    \o <<"/">> \o UserFeed \o <<"/">>

constructIcsUrl(env, token) ==
    IF ~Truthy(env.VITE_SUPABASE_URL) \/ ~Truthy(env.VITE_SUPABASE_ANON_KEY) THEN Thrown
    ELSE IF extractProjectRef(env.VITE_SUPABASE_URL) = Thrown THEN Thrown
    ELSE <<"https://">> \o extractProjectRef(env.VITE_SUPABASE_URL) \o <<".supabase.co">>
         \o FeedPath \o token \o DotIcs

HexLower == Digits \cup {"a", "b", "c", "d", "e", "f"}

IsHex(c) == LowerChar(c) \in HexLower

\* The character of an escape %XY.
PercentChar(x, y) ==
    CASE <<x, LowerChar(y)>> = <<"2", "d">> -> "-"
      [] <<x, LowerChar(y)>> = <<"2", "e">> -> "."
      [] <<x, LowerChar(y)>> = <<"2", "f">> -> "/"
      [] <<x, LowerChar(y)>> = <<"3", "a">> -> ":"
      [] <<x, LowerChar(y)>> = <<"3", "f">> -> "?"
      [] <<x, y>> = <<"2", "3">> -> "#"
      [] <<x, y>> = <<"2", "5">> -> "%"
      [] OTHER -> "%" \o x \o y

RECURSIVE DecodeFrom(_, _)
DecodeFrom(text, i) ==
    IF i > Len(text) THEN <<>>
    ELSE IF text[i] = "%"
    THEN <<PercentChar(text[i + 1], text[i + 2])>> \o DecodeFrom(text, i + 3)
    ELSE <<text[i]>> \o DecodeFrom(text, i + 1)

\* decodeURIComponent: Thrown (URIError) for a % without two hexadecimal
\* digits after it.
decodeURIComponent(text) ==
    IF \E i \in 1..Len(text) :
           /\ text[i] = "%"
           /\ ~(i + 2 <= Len(text) /\ IsHex(text[i + 1]) /\ IsHex(text[i + 2]))
    THEN Thrown
    ELSE Only({ DecodeFrom(v, 1) : v \in {text} })

UserFeedSlashes == <<"/">> \o UserFeed \o <<"/">>

\* (?:\?|#|$) at index q of text.
EndMark(text, q) == q > Len(text) \/ text[q] \in {"?", "#"}

\* (?:\.ics)?(?:\?|#|$) at index q of text.
AfterToken(text, q) ==
    EndMark(text, q) \/ (MatchesAt(text, DotIcs, q) /\ EndMark(text, q + 4))

\* ([a-f0-9\-]+?)(?:\.ics)?(?:\?|#|$) at index b of text, the group of n
\* characters.
StrictTail(text, b, n) ==
    /\ b + n - 1 <= Len(text)
    /\ \A k \in b..(b + n - 1) : IsHex(text[k]) \/ text[k] = "-"
    /\ AfterToken(text, b + n)

\* decodedUrl.match(/\/user-feed\/([a-f0-9\-]+?)(?:\.ics)?(?:\?|#|$)/i)[1]:
\* the leftmost match, its group as short as it can be; Null without one.
StrictMatch(text) ==
    LET starts == { p \in 1..Len(text) :
                      /\ MatchesAt(text, UserFeedSlashes, p)
                      /\ \E n \in 1..Len(text) : StrictTail(text, p + Len(UserFeedSlashes), n) }
    IN  IF starts = {} THEN Null
        ELSE LET p  == CHOOSE q \in starts : \A r \in starts : q <= r
                 b  == p + Len(UserFeedSlashes)
                 ns == { n \in 1..Len(text) : StrictTail(text, b, n) }
                 n  == CHOOSE m \in ns : \A r \in ns : m <= r
             IN  SubSeq(text, b, b + n - 1)

\* decodedUrl.match(/\/user-feed\/([^/?#]+?)(?:\.ics)?/i)[1]: nothing has to
\* follow the lazy group, which therefore holds one character.
FallbackMatch(text) ==
    LET starts == { p \in 1..Len(text) :
                      /\ MatchesAt(text, UserFeedSlashes, p)
                      /\ p + Len(UserFeedSlashes) <= Len(text)
                      /\ text[p + Len(UserFeedSlashes)] \notin {"/", "?", "#"} }
    IN  IF starts = {} THEN Null
        ELSE << text[(CHOOSE q \in starts : \A r \in starts : q <= r) + Len(UserFeedSlashes)] >>

extractTokenFromIcsUrl(icsUrl) ==
    Only({ IF StrictMatch(decodedUrl) # Null THEN StrictMatch(decodedUrl)
           ELSE FallbackMatch(decodedUrl) :
           decodedUrl \in { IF decodeURIComponent(icsUrl) = Thrown THEN icsUrl
                            ELSE decodeURIComponent(icsUrl) } })

\* The segments of a pathname: the texts after each "/".
RECURSIVE SegmentsFrom(_, _, _)
SegmentsFrom(text, i, segment) ==
    IF i > Len(text) THEN <<segment>>
    ELSE IF text[i] = "/" THEN <<segment>> \o SegmentsFrom(text, i + 1, <<>>)
    ELSE SegmentsFrom(text, i + 1, Append(segment, text[i]))

Segments(pathname) == Tail(SegmentsFrom(pathname, 1, <<>>))

UrlInit ==
    /\ uPc = "in"
    /\ uEnv \in ClientEnvs
    /\ uToken \in Tokens
    /\ uUrl = Null
    /\ uFromUrl = Null
    /\ uFromPathIcs = Null
    /\ uFromPath = Null
    /\ hostTZ = "UTC"
    /\ clock = Clock0
    /\ TextIdle
    /\ DateIdle
    /\ IcsIdle
    /\ HandlerIdle
    /\ PageIdle
    /\ RedirectIdle
    /\ WaitlistIdle

urlFrame ==
    <<uEnv, uToken, envVars, textVars, dateVars, icsVars, handlerVars, pageVars,
      redirectVars, waitlistVars>>

\* The client builds the URL of the token.
ConstructUrl ==
    /\ uPc = "in"
    /\ uUrl' = constructIcsUrl(uEnv, uToken)
    /\ uPc' = IF uUrl' = Thrown THEN "failed" ELSE "built"
    /\ UNCHANGED <<uFromUrl, uFromPathIcs, uFromPath, urlFrame>>

\* The client reads the token from the URL.
ExtractFromUrl ==
    /\ uPc = "built"
    /\ uFromUrl' = extractTokenFromIcsUrl(uUrl)
    /\ uPc' = "extracted"
    /\ UNCHANGED <<uUrl, uFromPathIcs, uFromPath, urlFrame>>

\* The serve handler reads the token from the paths /user-feed/t.ics and
\* /user-feed/t.
ExtractFromPaths ==
    /\ uPc = "extracted"
    /\ uFromPathIcs' = extractTokenFromPath(Segments(UserFeedSlashes \o uToken \o DotIcs))
    /\ uFromPath' = extractTokenFromPath(Segments(UserFeedSlashes \o uToken))
    /\ uPc' = "done"
    /\ UNCHANGED <<uUrl, uFromUrl, urlFrame>>

UrlNext == ConstructUrl \/ ExtractFromUrl \/ ExtractFromPaths

SpecUrl == UrlInit /\ [][UrlNext]_vars

\* C11: for every token t of letters, digits and hyphens,
\* extractTokenFromIcsUrl(constructIcsUrl(t)) = t, and extractTokenFromPath
\* gives t for the paths /user-feed/t.ics and /user-feed/t.
C11_TokenRoundTrip ==
    uPc = "done" => (uFromUrl = uToken /\ uFromPathIcs = uToken /\ uFromPath = uToken)

(***************************************************************************)
(* The selection page (src/pages/OnboardingEvents.tsx): one page session   *)
(* from mount to navigation, with the feed_preferences table behind it.    *)
(***************************************************************************)
MaxSyncs == 3

\* The ids of the checkboxes of the page.
PageTopics == { <<"Basketball">>, <<"major:", "CS">> }

\* uuidv4(): the n-th identifier it gives, never one it gave before.
Uuid(n) == <<"a", "-", DigitChar(n)>>

ConfiguredEnv ==
    [VITE_SUPABASE_URL |-> <<"https://", "ref", ".supabase.co">>,
     VITE_SUPABASE_ANON_KEY |-> <<"anon-key">>]

\* The query string the page is opened with: with or without a redirect
\* address, with or without the URL of an earlier session.
PageParams ==
    { [redirect_uri |-> r, ics_url |-> u] :
        r \in { Null, <<"https://app.example/cb">> },
        u \in { Null, constructIcsUrl(ConfiguredEnv, Uuid(0)) } }

\* topic_id as savePreferencesAndGetToken writes it.
TopicIdOf(selectedEventIds) ==
    IF Len(selectedEventIds) > 0
    THEN [kind |-> "array", items |-> selectedEventIds]
    ELSE [kind |-> "null", items |-> <<>>]

\* The table when the page opens: empty, or the row of the earlier session.
PageRowSets ==
    { <<>> }
    \cup { << [user_token |-> Uuid(0), topic_id |-> TopicIdOf(ids)] >> :
             ids \in { <<>>, << <<"Basketball">> >> } }

getSupabaseClient(env) ==
    IF env.VITE_SUPABASE_URL = Null \/ env.VITE_SUPABASE_ANON_KEY = Null
    THEN Thrown
    ELSE <<"client">>

\* fetchPreferencesByToken: the topic ids of the row of the token, null when
\* there is no row or no id.
fetchPreferencesByToken(rows, token) ==
    LET found == SelectSeq(rows, LAMBDA r : r.user_token = token)
    IN  IF found = <<>> \/ found[1].topic_id.kind # "array" \/ found[1].topic_id.items = <<>>
        THEN Null
        ELSE found[1].topic_id.items

\* update({topic_id}).eq('user_token', token)
UpdateRows(rows, token, ids) ==
    [i \in DOMAIN rows |->
        IF rows[i].user_token = token
        THEN [rows[i] EXCEPT !.topic_id = TopicIdOf(ids)]
        ELSE rows[i]]

\* insert({user_token, topic_id})
InsertRow(rows, token, ids) ==
    Append(rows, [user_token |-> token, topic_id |-> TopicIdOf(ids)])

\* toggleEvent on a Set, which keeps insertion order.
Toggled(selected, eventId) ==
    IF \E i \in DOMAIN selected : selected[i] = eventId
    THEN SelectSeq(selected, LAMBDA e : e # eventId)
    ELSE Append(selected, eventId)

PageInit ==
    /\ pPc = "new"
    /\ pParams \in PageParams
    /\ pEnv \in ClientEnvs
    /\ pRows \in PageRowSets
    /\ pRedirectUri = Null
    /\ pSelected = <<>>
    /\ pLoading = FALSE
    /\ pIcsUrl = Null
    /\ pExistingToken = Null
    /\ pLoad = "none"
    /\ pCall = NoCall
    /\ pSyncs = 0
    /\ pSaved = <<>>
    /\ hostTZ = "UTC"
    /\ clock = Clock0
    /\ TextIdle
    /\ DateIdle
    /\ IcsIdle
    /\ HandlerIdle
    /\ UrlIdle
    /\ RedirectIdle
    /\ WaitlistIdle

pageFrame ==
    <<pParams, pEnv, envVars, textVars, dateVars, icsVars, handlerVars, urlVars,
      redirectVars, waitlistVars>>

\* The effect that runs on mount reads the query string.
Mount ==
    /\ pPc = "new"
    /\ pPc' = "ready"
    /\ pRedirectUri' = pParams.redirect_uri
    /\ \E token \in { IF pParams.ics_url = Null THEN Null
                      ELSE extractTokenFromIcsUrl(pParams.ics_url) } :
          /\ pIcsUrl' = pParams.ics_url
          /\ pExistingToken' = token
          /\ pLoad' = IF token = Null THEN "none" ELSE "pending"
    /\ UNCHANGED <<pRows, pSelected, pLoading, pCall, pSyncs, pSaved, pageFrame>>

\* loadPreferences resumes with the stored ids, or with a failure.
PreferencesLoaded ==
    /\ pPc = "ready"
    /\ pLoad = "pending"
    /\ pLoad' = "done"
    /\ \E failed \in BOOLEAN :
          \E topicIds \in { IF failed \/ getSupabaseClient(pEnv) = Thrown THEN Null
                            ELSE fetchPreferencesByToken(pRows, pExistingToken) } :
             pSelected' = IF topicIds = Null THEN pSelected ELSE topicIds
    /\ UNCHANGED <<pPc, pRows, pRedirectUri, pLoading, pIcsUrl, pExistingToken, pCall,
                   pSyncs, pSaved, pageFrame>>

\* The user ticks or unticks a checkbox.
toggleEvent(eventId) ==
    /\ pPc = "ready"
    /\ pSelected' = Toggled(pSelected, eventId)
    /\ UNCHANGED <<pPc, pRows, pRedirectUri, pLoading, pIcsUrl, pExistingToken, pLoad,
                   pCall, pSyncs, pSaved, pageFrame>>

\* The user presses the sync button, enabled while isLoading is false:
\* handleSync up to its await, with the state of this render.
handleSync ==
    /\ pPc = "ready"
    /\ ~pLoading
    /\ pCall = NoCall
    /\ pSyncs < MaxSyncs
    /\ pSyncs' = pSyncs + 1
    /\ LET empty  == pSelected = <<>>
           saves  == ~empty \/ pExistingToken # Null
           thrown == saves /\ getSupabaseClient(pEnv) = Thrown
       IN  /\ pCall' =
                IF saves /\ ~thrown
                THEN [op |-> IF pExistingToken # Null THEN "update" ELSE "insert",
                      token |-> IF pExistingToken # Null THEN pExistingToken ELSE Uuid(pSyncs'),
                      ids |-> pSelected,
                      existingToken |-> pExistingToken,
                      icsUrl |-> pIcsUrl,
                      redirectUri |-> pRedirectUri]
                ELSE NoCall
           /\ pLoading' = ((saves /\ ~thrown) \/ (~saves /\ pRedirectUri # Null))
           /\ pPc' = IF ~saves /\ pRedirectUri # Null THEN "left" ELSE "ready"
    /\ UNCHANGED <<pRows, pRedirectUri, pSelected, pIcsUrl, pExistingToken, pLoad, pSaved,
                   pageFrame>>

\* The save fails: savePreferencesAndGetToken throws, handleSync catches.
SaveFails ==
    /\ pCall # NoCall
    /\ pCall' = NoCall
    /\ pLoading' = FALSE
    /\ UNCHANGED <<pPc, pRows, pRedirectUri, pSelected, pIcsUrl, pExistingToken, pLoad,
                   pSyncs, pSaved, pageFrame>>

\* The save succeeds: the row is written and handleSync runs to its end.
SaveReturns ==
    /\ pCall # NoCall
    /\ pCall' = NoCall
    /\ pRows' = IF pCall.op = "update"
                THEN UpdateRows(pRows, pCall.token, pCall.ids)
                ELSE InsertRow(pRows, pCall.token, pCall.ids)
    /\ \E finalIcsUrl \in { IF pCall.ids = <<>> THEN pIcsUrl
                            ELSE IF pCall.existingToken # Null /\ pCall.icsUrl # Null
                                 THEN pCall.icsUrl
                                 ELSE constructIcsUrl(pEnv, pCall.token) } :
          IF finalIcsUrl = Thrown
          THEN /\ pLoading' = FALSE
               /\ UNCHANGED <<pPc, pIcsUrl, pSaved>>
          ELSE /\ pIcsUrl' = finalIcsUrl
               /\ pSaved' = Append(pSaved, [token |-> pCall.token, url |-> finalIcsUrl])
               /\ pLoading' = (pCall.redirectUri # Null)
               /\ pPc' = IF pCall.redirectUri # Null THEN "left" ELSE "ready"
    /\ UNCHANGED <<pRedirectUri, pSelected, pExistingToken, pLoad, pSyncs, pageFrame>>

PageNext ==
    \/ Mount
    \/ PreferencesLoaded
    \/ \E eventId \in PageTopics : toggleEvent(eventId)
    \/ handleSync
    \/ SaveFails
    \/ SaveReturns

SpecPage == PageInit /\ [][PageNext]_vars

\* C12: in one page session every handleSync that saved did so under one
\* token, and the ICS URL shown after each of them is the same; so the
\* session creates at most one feed_preferences row.
C12_OneTokenPerSession ==
    \A i, j \in DOMAIN pSaved :
        pSaved[i].token = pSaved[j].token /\ pSaved[i].url = pSaved[j].url

\* The rows of the token as the feed_preferences query of the serve handler
\* selects them.
ServedRows(rows, token) ==
    LET found == SelectSeq(rows, LAMBDA r : r.user_token = token)
    IN  [k \in DOMAIN found |-> [topic_id |-> found[k].topic_id]]

\* The status the serve handler answers a request for the token with, as
\* far as its feed_preferences query decides it.
FeedStatusOf(rows, token) ==
    LET result == single(ServedRows(rows, token))
    IN  IF result.error # "none" THEN 500
        ELSE IF PrefsMissing(result.data) THEN 404
        ELSE 200

\* C29: after savePreferencesAndGetToken has saved a selection, the empty
\* one included, a request to the user feed with the token it returned is
\* answered with a calendar, not with the not-found or the error response.
C29_SavedSelectionServed ==
    \A i \in DOMAIN pSaved : FeedStatusOf(pRows, pSaved[i].token) = 200

(***************************************************************************)
(* The redirect endpoint (api/redirect/index.mjs): it reads the partner's  *)
(* address and the selection from the query, stores the selection under a  *)
(* fresh token when it has to build the feed URL itself, and answers 302   *)
(* with the feed URL appended to the partner's address.                    *)
(***************************************************************************)
Http == <<"h", "t", "t", "p", ":", "/", "/">>

Https == <<"h", "t", "t", "p", "s", ":", "/", "/">>

\* A query parameter: absent, given once (a text) or given several times
\* (an array of texts).
Absent == [kind |-> "absent", text |-> <<>>, items |-> <<>>]

TextParam(text) == [kind |-> "text", text |-> text, items |-> <<>>]

ArrayParam(items) == [kind |-> "array", text |-> <<>>, items |-> items]

\* redirect-url: absent, empty, with and without a scheme, with a query,
\* encoded once, encoded twice, and a text no decoding accepts.
RedirectUrls ==
    { Null, <<>>,
      Https \o <<"p">>,
      <<"p">>,
      Http \o <<"p", "?", "a">>,
      <<"h", "t", "t", "p", "s", "%", "3", "A", "%", "2", "F", "%", "2", "F", "p">>,
      <<"p", "%", "2", "5", "2", "F", "x">>,
      <<"%">> }

TopicParams ==
    { Absent, TextParam(<<>>), TextParam(<<"Chess">>),
      TextParam(<<"Chess", COMMA, "Basketball">>),
      ArrayParam(<< <<"Chess">>, <<"Basketball">> >>) }

MajorParams == { Absent, TextParam(<<"CS">>), ArrayParam(<< <<"CS">>, <<"Math">> >>) }

ProvidedUrls == { Null, <<"webcal://", "feeds.example", "/", "x", ".", "i", "c", "s">> }

RedirectQueries ==
    { [redirect_url |-> r, topic_ids |-> t, major_ids |-> m, ics_url |-> u, ics_dash_url |-> d] :
        r \in RedirectUrls, t \in TopicParams, m \in MajorParams,
        u \in ProvidedUrls, d \in ProvidedUrls }

\* process.env of the endpoint.
RedirectEnvs ==
    { [VITE_SUPABASE_URL |-> v, SUPABASE_URL |-> u,
       VITE_SUPABASE_ANON_KEY |-> k, SUPABASE_ANON_KEY |-> a] :
        v \in { Null, <<"https://", "ref", ".supabase.co">> },
        u \in { Null, <<"https://", "ref", ".example.com">> },
        k \in { Null, <<"anon-key">> },
        a \in { Null, <<"anon-key">> } }

\* The row of another user.
OtherRow == [user_token |-> Uuid(0), topic_id |-> << <<"Chess">> >>]

\* a || b
OrElse(a, b) == IF Truthy(a) THEN a ELSE b

\* q ? (Array.isArray(q) ? q : q.split(',')) : []
QueryList(q) ==
    IF q.kind = "array" THEN q.items
    ELSE IF q.kind = "text" /\ q.text # <<>> THEN SplitCommas(q.text)
    ELSE <<>>

\* constructIcsUrl(token, supabaseUrl) of the endpoint.
redirectConstructIcsUrl(token, supabaseUrl) ==
    IF extractProjectRef(supabaseUrl) = Thrown THEN Thrown
    ELSE <<"https://">> \o extractProjectRef(supabaseUrl) \o <<".supabase.co">>
         \o FeedPath \o token \o DotIcs

\* encodeURIComponent of one element of a text.
EncodeChar(c) ==
    CASE c = ":" -> <<"%", "3", "A">>
      [] c = "/" -> <<"%", "2", "F">>
      [] c = "?" -> <<"%", "3", "F">>
      [] c = "#" -> <<"%", "2", "3">>
      [] c = "%" -> <<"%", "2", "5">>
      [] c = COMMA -> <<"%", "2", "C">>
      [] c = "https://" -> <<"https", "%", "3", "A", "%", "2", "F", "%", "2", "F">>
      [] c = "webcal://" -> <<"webcal", "%", "3", "A", "%", "2", "F", "%", "2", "F">>
      [] OTHER -> <<c>>

encodeURIComponent(text) == Flatten([k \in 1..Len(text) |-> EncodeChar(text[k])])

\* Step 4: the redirect-url decoded, a second time while a % is left; the
\* value as received when a decoding throws.
DecodedRedirectUrl(redirectUrl) ==
    LET decoded == decodeURIComponent(redirectUrl)
    IN  IF decoded = Thrown THEN redirectUrl
        ELSE IF ~Contains(decoded, "%") THEN decoded
        ELSE IF decodeURIComponent(decoded) = Thrown THEN redirectUrl
        ELSE decodeURIComponent(decoded)

\* Step 5: https:// is put before an address without a scheme.
WithScheme(redirectUrl) ==
    IF IsPrefix(Http, redirectUrl) \/ IsPrefix(Https, redirectUrl) THEN redirectUrl
    ELSE Https \o redirectUrl

\* Step 6: new URL(redirectUrl) does not throw: the host after the scheme is
\* not empty and has no % and no space.
IsUrl(redirectUrl) ==
    LET rest == IF IsPrefix(Https, redirectUrl)
                THEN SubSeq(redirectUrl, Len(Https) + 1, Len(redirectUrl))
                ELSE SubSeq(redirectUrl, Len(Http) + 1, Len(redirectUrl))
        stop == FirstIndex(rest, 1, {"/", "?", "#"})
        host == IF stop = 0 THEN rest ELSE SubSeq(rest, 1, stop - 1)
    IN  host # <<>> /\ ~Contains(host, "%") /\ ~Contains(host, " ")

\* Steps 7 and 8: the Location of the redirect.
FinalUrl(redirectUrl, icsUrl) ==
    redirectUrl
    \o (IF Contains(redirectUrl, "?") THEN <<"&">> ELSE <<"?">>)
    \o <<"ics_url=">>
    \o (IF Truthy(icsUrl) THEN encodeURIComponent(icsUrl) ELSE <<>>)

RedirectFails(status, error) ==
    /\ rRes' = [status |-> status, error |-> error, location |-> <<>>]
    /\ rPc' = "done"

\* Steps 4 to 8 with the icsUrl decided.
RedirectFinish(icsUrl) ==
    /\ rIcsUrl' = icsUrl
    /\ \E redirectUrl \in {WithScheme(DecodedRedirectUrl(rQuery.redirect_url))} :
          IF IsUrl(redirectUrl)
          THEN /\ rRes' = [status |-> 302, error |-> "",
                           location |-> FinalUrl(redirectUrl, icsUrl)]
               /\ rPc' = "done"
          ELSE RedirectFails(400, "Invalid redirect-url format")

RedirectInit ==
    /\ rPc = "start"
    /\ rQuery \in RedirectQueries
    /\ rEnv \in RedirectEnvs
    /\ rRows = <<OtherRow>>
    /\ rTopicIds = <<>>
    /\ rMajorIds = <<>>
    /\ rToken = Null
    /\ rIcsUrl = Null
    /\ rRes = NoResponse
    /\ hostTZ = "UTC"
    /\ clock = Clock0
    /\ TextIdle
    /\ DateIdle
    /\ IcsIdle
    /\ HandlerIdle
    /\ UrlIdle
    /\ PageIdle
    /\ WaitlistIdle

redirectFrame ==
    <<rQuery, rEnv, envVars, textVars, dateVars, icsVars, handlerVars, urlVars, pageVars,
      waitlistVars>>

\* The handler from the request to its response or to the await of the
\* insert.
RedirectReceive ==
    /\ rPc = "start"
    /\ rTopicIds' = QueryList(rQuery.topic_ids)
    /\ rMajorIds' = QueryList(rQuery.major_ids)
    /\ LET providedIcsUrl == OrElse(rQuery.ics_url, rQuery.ics_dash_url)
           supabaseUrl == OrElse(rEnv.VITE_SUPABASE_URL, rEnv.SUPABASE_URL)
           supabaseAnonKey == OrElse(rEnv.VITE_SUPABASE_ANON_KEY, rEnv.SUPABASE_ANON_KEY)
       IN  IF ~Truthy(rQuery.redirect_url)
           THEN RedirectFails(400, "Missing redirect-url query parameter")
                /\ UNCHANGED <<rToken, rIcsUrl>>
           ELSE IF Truthy(providedIcsUrl)
           THEN RedirectFinish(providedIcsUrl) /\ UNCHANGED rToken
           ELSE IF rTopicIds' = <<>> /\ rMajorIds' = <<>>
           THEN RedirectFinish(<<>>) /\ UNCHANGED rToken
           ELSE IF ~Truthy(supabaseUrl) \/ ~Truthy(supabaseAnonKey)
           THEN RedirectFails(500, "Missing Supabase configuration")
                /\ UNCHANGED <<rToken, rIcsUrl>>
           ELSE /\ rToken' = Uuid(1)
                /\ IF rTopicIds' # <<>>
                   THEN rPc' = "inserting" /\ UNCHANGED <<rIcsUrl, rRes>>
                   ELSE IF redirectConstructIcsUrl(rToken', supabaseUrl) = Thrown
                   THEN RedirectFails(500, "Internal Server Error") /\ UNCHANGED rIcsUrl
                   ELSE RedirectFinish(redirectConstructIcsUrl(rToken', supabaseUrl))
    /\ UNCHANGED <<rRows, redirectFrame>>

\* The insert returns: with an error, or with the row stored, after which
\* the handler runs to its response.
RedirectInsertReturns ==
    /\ rPc = "inserting"
    /\ \E insertError \in BOOLEAN :
          IF insertError
          THEN RedirectFails(500, "Failed to save preferences")
               /\ UNCHANGED <<rRows, rIcsUrl>>
          ELSE /\ rRows' = Append(rRows, [user_token |-> rToken, topic_id |-> rTopicIds])
               /\ \E icsUrl \in { redirectConstructIcsUrl(rToken,
                                     OrElse(rEnv.VITE_SUPABASE_URL, rEnv.SUPABASE_URL)) } :
                     IF icsUrl = Thrown
                     THEN RedirectFails(500, "Internal Server Error") /\ UNCHANGED rIcsUrl
                     ELSE RedirectFinish(icsUrl)
    /\ UNCHANGED <<rTopicIds, rMajorIds, rToken, redirectFrame>>

RedirectNext == RedirectReceive \/ RedirectInsertReturns

SpecRedirect == RedirectInit /\ [][RedirectNext]_vars

\* The endpoint answered 302 with a feed URL it built from a fresh token.
RedirectedWithOwnUrl == rPc = "done" /\ rRes.status = 302 /\ rToken # Null

\* The row holds the entry: as it is, or as a department with the prefix.
HoldsEntry(row, entry) ==
    \E k \in 1..Len(row.topic_id) :
        row.topic_id[k] = entry \/ row.topic_id[k] = <<"major:">> \o entry

\* C28: whenever the redirect endpoint answers 302 with a feed URL it built
\* itself from a fresh token, a feed_preferences row of that token is stored
\* and holds every topic_ids entry and every major_ids entry of the request.
C28_SelectionStored ==
    RedirectedWithOwnUrl =>
        \E k \in 1..Len(rRows) :
            /\ rRows[k].user_token = rToken
            /\ \A i \in 1..Len(QueryList(rQuery.topic_ids)) :
                   HoldsEntry(rRows[k], QueryList(rQuery.topic_ids)[i])
            /\ \A i \in 1..Len(QueryList(rQuery.major_ids)) :
                   HoldsEntry(rRows[k], QueryList(rQuery.major_ids)[i])

(***************************************************************************)
(* addToEventWaitlist (src/utils/supabaseService.ts), called by two        *)
(* callers (two tabs or devices of one user) at any time: each call reads  *)
(* the waitlist of its token, then writes it back with its topic added.    *)
(***************************************************************************)
Callers == {"tabA", "tabB"}

\* requestedTopic as typed.
RequestedTopics == { <<>>, <<" ">>, <<"x">>, <<" ", "x">>, <<"y">> }

\* userToken: null, the token of a stored row, a token without a row.
WaitlistTokens == { Null, Uuid(0), Uuid(9) }

\* waitlist_topics null: a list no waitlist of the model equals.
NoWaitlist == <<Null>>

\* waitlist_topics of the stored row when the calls start.
StoredWaitlists == { NoWaitlist, <<>>, << <<"x">> >> }

NotCalled == [pc |-> "idle", topic |-> <<>>, token |-> Null, updatedWaitlist |-> <<>>]

\* .select('waitlist_topics').eq('user_token', token).single(), and
\* existing?.waitlist_topics || []
currentWaitlist(rows, token) ==
    LET found == SelectSeq(rows, LAMBDA r : r.user_token = token)
    IN  IF Len(found) # 1 \/ found[1].waitlist_topics = NoWaitlist THEN <<>>
        ELSE found[1].waitlist_topics

\* .update({ waitlist_topics }).eq('user_token', token)
UpdateWaitlist(rows, token, waitlist) ==
    [i \in DOMAIN rows |->
        IF rows[i].user_token = token
        THEN [rows[i] EXCEPT !.waitlist_topics = waitlist]
        ELSE rows[i]]

\* uuidv4() of a caller.
CallerUuid(c) == IF c = "tabA" THEN Uuid(1) ELSE Uuid(2)

WaitlistInit ==
    /\ wEnv \in { ConfiguredEnv, [ConfiguredEnv EXCEPT !.VITE_SUPABASE_ANON_KEY = Null] }
    /\ \E w \in StoredWaitlists :
          wRows = << [user_token |-> Uuid(0), topic_id |-> << <<"Chess">> >>,
                      waitlist_topics |-> w] >>
    /\ wCalls = [c \in Callers |-> NotCalled]
    /\ hostTZ = "UTC"
    /\ clock = Clock0
    /\ TextIdle
    /\ DateIdle
    /\ IcsIdle
    /\ HandlerIdle
    /\ UrlIdle
    /\ PageIdle
    /\ RedirectIdle

waitlistFrame ==
    <<wEnv, envVars, textVars, dateVars, icsVars, handlerVars, urlVars, pageVars,
      redirectVars>>

\* addToEventWaitlist up to its first await.
CallAddToEventWaitlist(c, requestedTopic, userToken) ==
    /\ wCalls[c].pc = "idle"
    /\ wCalls' =
          [wCalls EXCEPT ![c] =
              IF trim(requestedTopic) = <<>> \/ getSupabaseClient(wEnv) = Thrown
              THEN [NotCalled EXCEPT !.pc = "thrown"]
              ELSE IF Truthy(userToken)
              THEN [pc |-> "selecting", topic |-> trim(requestedTopic),
                    token |-> userToken, updatedWaitlist |-> <<>>]
              ELSE [pc |-> "inserting", topic |-> trim(requestedTopic),
                    token |-> CallerUuid(c), updatedWaitlist |-> <<>>]]
    /\ UNCHANGED <<wRows, waitlistFrame>>

\* The select returns: the call throws, returns because the topic is
\* stored already, or goes on to the update.
WaitlistSelectReturns(c) ==
    /\ wCalls[c].pc = "selecting"
    /\ \E fetchError \in BOOLEAN :
          \E current \in {currentWaitlist(wRows, wCalls[c].token)} :
             wCalls' =
                [wCalls EXCEPT ![c] =
                    IF fetchError THEN [wCalls[c] EXCEPT !.pc = "thrown"]
                    ELSE IF \E k \in 1..Len(current) : current[k] = wCalls[c].topic
                    THEN [wCalls[c] EXCEPT !.pc = "returned"]
                    ELSE [wCalls[c] EXCEPT !.pc = "updating",
                                           !.updatedWaitlist = Append(current, wCalls[c].topic)]]
    /\ UNCHANGED <<wRows, waitlistFrame>>

\* The update returns.
WaitlistUpdateReturns(c) ==
    /\ wCalls[c].pc = "updating"
    /\ \E updateError \in BOOLEAN :
          IF updateError
          THEN /\ wCalls' = [wCalls EXCEPT ![c].pc = "thrown"]
               /\ UNCHANGED wRows
          ELSE /\ wRows' = UpdateWaitlist(wRows, wCalls[c].token, wCalls[c].updatedWaitlist)
               /\ wCalls' = [wCalls EXCEPT ![c].pc = "returned"]
    /\ UNCHANGED waitlistFrame

\* The insert of a call without a token returns.
WaitlistInsertReturns(c) ==
    /\ wCalls[c].pc = "inserting"
    /\ \E insertError \in BOOLEAN :
          IF insertError
          THEN /\ wCalls' = [wCalls EXCEPT ![c].pc = "thrown"]
               /\ UNCHANGED wRows
          ELSE /\ wRows' = Append(wRows, [user_token |-> wCalls[c].token,
                                         topic_id |-> Null,
                                         waitlist_topics |-> <<wCalls[c].topic>>])
               /\ wCalls' = [wCalls EXCEPT ![c].pc = "returned"]
    /\ UNCHANGED waitlistFrame

WaitlistNext ==
    \E c \in Callers :
        \/ \E requestedTopic \in RequestedTopics, userToken \in WaitlistTokens :
              CallAddToEventWaitlist(c, requestedTopic, userToken)
        \/ WaitlistSelectReturns(c)
        \/ WaitlistUpdateReturns(c)
        \/ WaitlistInsertReturns(c)

SpecWaitlist == WaitlistInit /\ [][WaitlistNext]_vars

\* The number of times the topic is in the stored waitlist of the token.
TimesStored(rows, token, topic) ==
    Cardinality({ k \in 1..Len(currentWaitlist(rows, token)) :
                    currentWaitlist(rows, token)[k] = topic })

\* C30: whatever the interleaving of the addToEventWaitlist calls, the topic
\* of every call that returned is in the stored waitlist_topics of its token
\* exactly once: none is lost to a concurrent call, none is stored twice.
C30_NoAdditionLost ==
    \A c \in Callers :
        wCalls[c].pc = "returned" =>
            TimesStored(wRows, wCalls[c].token, wCalls[c].topic) = 1

=============================================================================
